---- MODULE Spec2Model ----
(***************************************************************************)
(* Cardano <-> EVM atomic swap (ronakgupta11/cardano-swap).                *)
(*                                                                         *)
(* The model follows the Cardano -> EVM direction, for which both escrow   *)
(* implementations are present: the maker's ADA is locked in the AuthVault,*)
(* a resolver moves it into the plu-ts `escrow` validator (source side),   *)
(* the resolver funds EscrowDst.sol with ETH (destination side), and the   *)
(* maker's browser hands the secret to the resolver over the websocket.    *)
(* Time is POSIX milliseconds on Cardano and seconds on the EVM.           *)
(***************************************************************************)
EXTENDS Integers, Sequences, FiniteSets, TLC

(*************************** bounds of the model ***************************)
SrcAmount == 3            \* lovelace the maker locks (escrowAmount)
SafetyDeposit == 1        \* lovelace safety deposit of the resolver
DstAmount == 3            \* wei the resolver locks for the maker (swapAmount)
EvmSafetyDeposit == 1     \* wei safety deposit on the EVM side
MaxFee == 1               \* largest Cardano transaction fee
MaxTicks == 2             \* number of clock steps explored
StartTime == 36000000     \* POSIX ms at which the model starts (10 h)

(**************************** program constants ***************************)
HourMs == 3600000
MsPerSecond == 1000
ValidityWindowMs == 100000

Parties == {"maker", "resolver", "third"}

\* the maker's secret and a value that is not the secret
Secret == "hello"
WrongSecret == "guess"
NoSecret == "null"
Secrets == {Secret, WrongSecret}

NoBound == -1

\* SHA-256 and keccak-256, idealised as two distinct injective functions
psha2_256(s) == <<"sha256", s>>
keccak256(s) == <<"keccak256", s>>

\* the two Plutus scripts and an unrelated script address
EscrowScriptHash == "escrowScript"
OtherScriptHash == "otherScript"

VARIABLES
    now,          \* POSIX time in milliseconds
    wallet,       \* wallet[p] = [ada, eth] held by party p
    known,        \* parties that know the maker's secret
    vault,        \* the AuthVault UTXO
    cEscrow,      \* the UTXO at the Cardano escrow script
    log,          \* last terminal-transition attempt on either escrow
    cHist,        \* [successes, paid]: terminal transitions of the Cardano escrow
    eEscrow,      \* the EscrowDst clone
    eHist,        \* [successes, paid]: terminal transitions of EscrowDst
    relay,        \* websocket relay between the two browsers
    vLog,         \* last spend attempt on the AuthVault
    order,        \* the maker's signed order and the source escrow created from it
    call,         \* last call of a helper function: its arguments and its result
    hook,         \* one instance of the useWebSocket hook and its sockets
    storage       \* the browser's localStorage as the client secret manager uses it

vars == <<now, wallet, known, vault, cEscrow, cHist, eEscrow, eHist, log, relay, vLog, order, call, hook, storage>>

NoLog == [chain |-> "none", op |-> "none", ok |-> FALSE, actor |-> "none", secret |-> NoSecret]
NoHist == [successes |-> 0, paid |-> 0]
NoCall == [fn |-> "none"]

\* localStorage: an item is absent, the JSON of a secret with its metadata,
\* or the JSON of the index array.  The item of a key is named
\* 'cardano_swap_secret_' + key, the index 'cardano_swap_secret_index'.
StoreKeys == {"order1", "order2", "index"}
Absent == [kind |-> "absent"]
NoStorage == [items |-> [k \in StoreKeys |-> Absent], ops |-> 0,
              last |-> [op |-> "none", key |-> "none", threw |-> FALSE]]

\* the useWebSocket hook before it is mounted.  current is the readyState of
\* the socket in ws.current ("null" when there is none); the sockets the hook
\* created earlier and no longer refers to are counted by readyState
NoHook == [role |-> "none", mounted |-> FALSE,
           current |-> "null", strayConnecting |-> 0, strayOpen |-> 0, created |-> 0,
           reconnectAttempts |-> 0, timers |-> <<>>, sinceOpen |-> 0,
           secret |-> NoSecret, stored |-> NoSecret,
           received |-> 0, lastIn |-> [type |-> "none", secret |-> NoSecret], sent |-> <<>>]

\* the row of the order in the backend's database, and a request of a
\* resolver to accept it (pc: idle, read, done)
NoRow == [status |-> "none", resolverAddress |-> "none"]
NoRequest == [pc |-> "idle", read |-> NoRow, result |-> "none"]

NoOrder == [state |-> "none",
            row |-> NoRow,
            requests |-> [r \in {"resolver", "third"} |-> NoRequest],
            updates |-> 0,
            signed |-> [maker |-> "none", resolver |-> "none", ethAmount |-> 0,
                        safetyDeposit |-> 0, deadline |-> 0,
                        signature |-> [signer |-> "none", resolver |-> "none"]],
            srcEscrows |-> {},
            lop |-> 0,
            prefund |-> {},
            page |-> [state |-> "none", fromChain |-> "none", toChain |-> "none", hashlock |-> <<>>,
                      src |-> [chain |-> "none", hashlock |-> <<>>],
                      dst |-> [chain |-> "none", hashlock |-> <<>>],
                      secret |-> NoSecret, shareSecret |-> "pending",
                      isProcessing |-> FALSE, rendered |-> FALSE,
                      running |-> {}, completed |-> {}, calls |-> 0,
                      lastCall |-> [action |-> "none", ran |-> FALSE]],
            attempts |-> 0,
            last |-> [actor |-> "none", at |-> 0, ok |-> FALSE, error |-> "none"]]
MaxSuccesses == 3

NoDatum == [hashlock |-> <<>>, maker_pkh |-> "none", resolver_pkh |-> "none",
            resolver_unlock_deadline |-> 0, resolver_cancel_deadline |-> 0,
            public_cancel_deadline |-> 0, safety_deposit |-> 0]

NoImmutables == [hashlock |-> <<>>, maker |-> "none", taker |-> "none", amount |-> 0,
                 safetyDeposit |-> 0,
                 timelocks |-> [DstWithdrawal |-> 0, DstPublicWithdrawal |-> 0, DstCancellation |-> 0]]

InitWallet == [p \in Parties |->
                 IF p = "maker" THEN [ada |-> SrcAmount, eth |-> 0]
                 ELSE IF p = "resolver"
                      THEN [ada |-> SafetyDeposit, eth |-> DstAmount + EvmSafetyDeposit]
                      ELSE [ada |-> 0, eth |-> 0]]

InitRelay == [stored |-> FALSE,        \* localStorage secret_<orderId> of the maker
              toMaker |-> {},          \* messages in flight to the maker's socket
              toServer |-> {},         \* messages the maker's socket has sent
              toResolver |-> {},       \* messages in flight to the resolver's socket
              resolverSecret |-> NoSecret, \* secret.current of the resolver's hook
              sent |-> FALSE]          \* a secret message has left the maker's socket

Pay(w, p, asset, n) == [w EXCEPT ![p][asset] = @ + n]

Log(chain, op, actor, secret, ok) == [chain |-> chain, op |-> op, ok |-> ok, actor |-> actor, secret |-> secret]

Attempt(h, ok, paid) == [successes |-> h.successes + (IF ok THEN 1 ELSE 0),
                         paid |-> h.paid + (IF ok THEN paid ELSE 0)]

(************************* Cardano: the AuthVault **************************)

\* authVaultValidator: the resolver named in the redeemer signs, and some
\* output pays exactly maker_input_value + safety_deposit_amount to the
\* escrow script named in the datum.
\* the validator without the safety deposit in the expected value
authVaultValidator_noDeposit(datum, redeemer, tx) ==
    LET expectedEscrowValue == datum.maker_input_value
        signedByResolver == redeemer.resolver_pkh \in tx.signatories
        hasValidEscrowOutput ==
            \E i \in 1..Len(tx.outputs) :
                /\ tx.outputs[i].script
                /\ tx.outputs[i].cred = datum.expected_escrow_script_hash
                /\ tx.outputs[i].lovelaces = expectedEscrowValue
    IN signedByResolver /\ hasValidEscrowOutput

\* the validator without the signature check
authVaultValidator_noSignature(datum, redeemer, tx) ==
    LET expectedEscrowValue == datum.maker_input_value + redeemer.safety_deposit_amount
        hasValidEscrowOutput ==
            \E i \in 1..Len(tx.outputs) :
                /\ tx.outputs[i].script
                /\ tx.outputs[i].cred = datum.expected_escrow_script_hash
                /\ tx.outputs[i].lovelaces = expectedEscrowValue
    IN hasValidEscrowOutput

authVaultValidator(datum, redeemer, tx) ==
    LET expectedEscrowValue == datum.maker_input_value + redeemer.safety_deposit_amount
        signedByResolver == redeemer.resolver_pkh \in tx.signatories
        hasValidEscrowOutput ==
            \E i \in 1..Len(tx.outputs) :
                /\ tx.outputs[i].script
                /\ tx.outputs[i].cred = datum.expected_escrow_script_hash
                /\ tx.outputs[i].lovelaces = expectedEscrowValue
    IN signedByResolver /\ hasValidEscrowOutput

NoVault == [state |-> "none", value |-> 0, spends |-> 0,
            datum |-> [maker_pkh |-> "none", expected_escrow_script_hash |-> "none", maker_input_value |-> 0]]

\* lockInAuthVault: the maker pays escrowAmount to the vault script.
lockInAuthVault ==
    /\ vault.state = "none"
    /\ wallet["maker"].ada >= SrcAmount
    /\ wallet' = Pay(wallet, "maker", "ada", 0 - SrcAmount)
    /\ vault' = [state |-> "locked", value |-> SrcAmount, spends |-> 0,
                 datum |-> [maker_pkh |-> "maker",
                            expected_escrow_script_hash |-> EscrowScriptHash,
                            maker_input_value |-> SrcAmount]]
    /\ UNCHANGED <<now, known, cEscrow, cHist, eEscrow, eHist, log, relay, vLog, order, call, hook, storage>>

(************************ Cardano: the escrow script ***********************)

\* escrow: the HTLC validator.  tx = [signatories, lower, upper], the bounds
\* of the validity interval in POSIX milliseconds (NoBound = not finite).
beforeResolverDeadline(datum, tx) ==
    IF tx.upper # NoBound
    THEN tx.upper <= datum.resolver_unlock_deadline \div MsPerSecond
    ELSE FALSE

afterResolverDeadline(datum, tx) ==
    IF tx.lower # NoBound
    THEN datum.resolver_unlock_deadline \div MsPerSecond < tx.lower
    ELSE FALSE

escrow(datum, redeemer, tx) ==
    LET isSecretValid(secret) == psha2_256(secret) = datum.hashlock
        signedByResolver == datum.resolver_pkh \in tx.signatories
        timeAndSigValidation ==
            (beforeResolverDeadline(datum, tx) /\ signedByResolver) \/ afterResolverDeadline(datum, tx)
    IN IF redeemer.tag = "Withdraw"
       THEN isSecretValid(redeemer.secret) /\ timeAndSigValidation
       ELSE signedByResolver

NoEscrow == [state |-> "none", value |-> 0, datum |-> NoDatum]

\* the deadline offsets (hours) a resolver may configure
Offsets == {[deadlineOffset |-> 1, cancelOffset |-> 2, publicOffset |-> 3]}

\* createEscrowFromAuthVault: the resolver spends the vault UTXO and its own
\* safety deposit into one escrow output.
createEscrowFromAuthVaultWith(cfg) ==
    /\ vault.state = "locked"
    /\ cEscrow.state = "none"
    /\ wallet["resolver"].ada >= SafetyDeposit
    /\ LET escrowAmount == vault.value
            totalEscrowValue == escrowAmount + SafetyDeposit
            redeemer == [resolver_pkh |-> "resolver", safety_deposit_amount |-> SafetyDeposit]
            datum == [hashlock |-> psha2_256(Secret),
                      maker_pkh |-> "maker",
                      resolver_pkh |-> "resolver",
                      resolver_unlock_deadline |-> now + cfg.deadlineOffset * HourMs,
                      resolver_cancel_deadline |-> now + cfg.cancelOffset * HourMs,
                      public_cancel_deadline |-> now + cfg.publicOffset * HourMs,
                      safety_deposit |-> SafetyDeposit]
            tx == [signatories |-> {"resolver"},
                   outputs |-> <<[script |-> TRUE, cred |-> EscrowScriptHash, lovelaces |-> totalEscrowValue]>>]
            ok == authVaultValidator(vault.datum, redeemer, tx)
        IN /\ vLog' = [ok |-> ok, tx |-> tx, redeemer |-> redeemer]
           /\ IF ok
              THEN /\ vault' = [vault EXCEPT !.state = "spent", !.value = 0, !.spends = @ + 1]
                   /\ cEscrow' = [state |-> "funded", value |-> totalEscrowValue, datum |-> datum]
                   /\ wallet' = Pay(wallet, "resolver", "ada", 0 - SafetyDeposit)
              ELSE UNCHANGED <<vault, cEscrow, wallet>>
    /\ UNCHANGED <<now, known, cHist, eEscrow, eHist, log, relay, order, call, hook, storage>>

createEscrowFromAuthVault == \E cfg \in Offsets : createEscrowFromAuthVaultWith(cfg)

\* the secrets a party can put in a transaction: the real one if it knows
\* it, and a value that is not the secret
Presentable(p) == IF p \in known THEN Secrets ELSE {WrongSecret}

SwapValidation_validateSecret(s, expectedHash) == psha2_256(s) = expectedHash
SwapValidation_validatePKH(actual, expected) == expected = actual

SwapValidation_validateTimelock(currentTime, resolverUnlockDeadline, isBeforeDeadlineWithdrawal) ==
    IF isBeforeDeadlineWithdrawal
    THEN currentTime <= resolverUnlockDeadline
    ELSE currentTime > resolverUnlockDeadline

\* withdrawFromSwap: the party running the script signs as resolver, pays
\* escrowAmount to the maker, and takes the rest (minus fee) as change.
withdrawFromSwap(p, s, fee) ==
    LET swapUtxoFound == cEscrow.state = "funded"
        offchainOk == /\ swapUtxoFound
                      /\ SwapValidation_validateSecret(s, cEscrow.datum.hashlock)
                      /\ SwapValidation_validatePKH(p, cEscrow.datum.resolver_pkh)
        safetyDepositAmount == cEscrow.datum.safety_deposit
        totalEscrowValue == cEscrow.value
        escrowAmount == totalEscrowValue - safetyDepositAmount
        change == totalEscrowValue - escrowAmount - fee
        tx == [signatories |-> {p}, lower |-> now, upper |-> now + ValidityWindowMs]
        ok == /\ offchainOk
              /\ escrowAmount >= 0 /\ change >= 0
              /\ escrow(cEscrow.datum, [tag |-> "Withdraw", secret |-> s], tx)
    IN /\ cHist.successes < MaxSuccesses
       /\ log' = Log("cardano", "Withdraw", p, s, ok)
       /\ cHist' = Attempt(cHist, ok, escrowAmount + change + fee)
       /\ IF ok
          THEN /\ cEscrow' = [cEscrow EXCEPT !.state = "withdrawn", !.value = 0]
               /\ wallet' = Pay(Pay(wallet, "maker", "ada", escrowAmount), p, "ada", change)
               /\ known' = Parties
          ELSE UNCHANGED <<cEscrow, wallet, known>>
       /\ UNCHANGED <<now, vault, eEscrow, eHist, relay, vLog, order, call, hook, storage>>

\* cancelSwap: the party running the script signs as resolver; the
\* transaction has no explicit output, so the whole value is change.
cancelSwap(p, fee) ==
    LET swapUtxoFound == cEscrow.state = "funded"
        offchainOk == /\ swapUtxoFound
                      /\ SwapValidation_validatePKH(p, cEscrow.datum.resolver_pkh)
        change == cEscrow.value - fee
        tx == [signatories |-> {p}, lower |-> now, upper |-> now + ValidityWindowMs]
        ok == /\ offchainOk
              /\ change >= 0
              /\ escrow(cEscrow.datum, [tag |-> "Cancel"], tx)
    IN /\ cHist.successes < MaxSuccesses
       /\ log' = Log("cardano", "Cancel", p, NoSecret, ok)
       /\ cHist' = Attempt(cHist, ok, change + fee)
       /\ IF ok
          THEN /\ cEscrow' = [cEscrow EXCEPT !.state = "cancelled", !.value = 0]
               /\ wallet' = Pay(wallet, p, "ada", change)
          ELSE UNCHANGED <<cEscrow, wallet>>
       /\ UNCHANGED <<now, known, vault, eEscrow, eHist, relay, vLog, order, call, hook, storage>>

(***************************** EVM: EscrowDst ******************************)

NoDst == [deployed |-> FALSE, balance |-> 0, immutables |-> NoImmutables]

\* block.timestamp, in seconds
blockTimestamp == now \div MsPerSecond

\* the timelock stages (seconds) a destination escrow may be created with:
\* all zero, as the scripts pass them, or staged one hour apart
TimelockConfigs ==
    { [DstWithdrawal |-> 0, DstPublicWithdrawal |-> 0, DstCancellation |-> 0],
      [DstWithdrawal |-> blockTimestamp,
       DstPublicWithdrawal |-> blockTimestamp + HourMs \div MsPerSecond,
       DstCancellation |-> blockTimestamp + 2 * (HourMs \div MsPerSecond)] }

\* holders of the access token
AccessTokenHolders == {"third"}

\* modifiers of BaseEscrow
onlyTaker(sender, immutables) == sender = immutables.taker
onlyValidImmutables(immutables) == eEscrow.deployed /\ immutables = eEscrow.immutables
onlyValidSecret(secret, immutables) == keccak256(secret) = immutables.hashlock
onlyAfter(start) == blockTimestamp >= start
onlyBefore(stop) == blockTimestamp < stop
onlyAccessTokenHolder(sender) == sender \in AccessTokenHolders
TimelocksLib_get(timelocks, stage) == timelocks[stage]

\* createDstEscrow as called by cardano-to-evm-swap.js: the taker sends
\* swapAmount + safetyDeposit of ETH with the immutables.
createDstEscrow ==
    /\ ~eEscrow.deployed
    /\ \E tl \in TimelockConfigs :
        LET swapAmount == DstAmount
            safetyDeposit == EvmSafetyDeposit
            immutables == [hashlock |-> keccak256(Secret), maker |-> "maker", taker |-> "resolver",
                           amount |-> swapAmount, safetyDeposit |-> safetyDeposit, timelocks |-> tl]
            totalEthRequired == swapAmount + safetyDeposit
        IN /\ wallet["resolver"].eth >= totalEthRequired
           /\ wallet' = Pay(wallet, "resolver", "eth", 0 - totalEthRequired)
           /\ eEscrow' = [deployed |-> TRUE, balance |-> totalEthRequired, immutables |-> immutables]
    /\ UNCHANGED <<now, known, vault, cEscrow, cHist, eHist, log, relay, vLog, order, call, hook, storage>>

\* a _withdraw that returns the safety deposit and leaves the tokens behind
withdrawTransfers_depositOnly(immutables) ==
    <<[to |-> immutables.taker, value |-> immutables.safetyDeposit]>>

\* the two transfers of _withdraw; a transfer reverts the call when the
\* escrow's balance does not cover it
withdrawTransfers(immutables) ==
    <<[to |-> immutables.maker, value |-> immutables.amount],
      [to |-> immutables.taker, value |-> immutables.safetyDeposit]>>

\* a cancel that returns the tokens and leaves the safety deposit behind
cancelTransfers_amountOnly(immutables) ==
    <<[to |-> immutables.taker, value |-> immutables.amount]>>

\* the two transfers of cancel
cancelTransfers(immutables) ==
    <<[to |-> immutables.taker, value |-> immutables.amount],
      [to |-> immutables.taker, value |-> immutables.safetyDeposit]>>

RECURSIVE SumTransfers(_)
SumTransfers(ts) == IF ts = <<>> THEN 0 ELSE Head(ts).value + SumTransfers(Tail(ts))

RECURSIVE ApplyTransfers(_, _)
ApplyTransfers(w, ts) ==
    IF ts = <<>> THEN w ELSE ApplyTransfers(Pay(w, Head(ts).to, "eth", Head(ts).value), Tail(ts))

\* a call whose transfers stay in place when a check fails
EvmCall_noRevert(op, sender, secret, allowed, ts) ==
    LET ok == allowed /\ SumTransfers(ts) <= eEscrow.balance
        covered == SumTransfers(ts) <= eEscrow.balance
    IN /\ eHist.successes < MaxSuccesses
       /\ log' = Log("evm", op, sender, secret, ok)
       /\ eHist' = Attempt(eHist, ok, SumTransfers(ts))
       /\ IF covered
          THEN /\ eEscrow' = [eEscrow EXCEPT !.balance = @ - SumTransfers(ts)]
               /\ wallet' = ApplyTransfers(wallet, ts)
          ELSE UNCHANGED <<eEscrow, wallet>>
       /\ UNCHANGED <<now, known, vault, cEscrow, cHist, relay, vLog, order, call, hook, storage>>

\* a call on EscrowDst: allowed says whether the modifiers and the caller
\* check pass, ts are the transfers the body makes
EvmCall(op, sender, secret, allowed, ts) ==
    LET ok == allowed /\ SumTransfers(ts) <= eEscrow.balance
    IN /\ eHist.successes < MaxSuccesses
       /\ log' = Log("evm", op, sender, secret, ok)
       /\ eHist' = Attempt(eHist, ok, SumTransfers(ts))
       /\ IF ok
          THEN /\ eEscrow' = [eEscrow EXCEPT !.balance = @ - SumTransfers(ts)]
               /\ wallet' = ApplyTransfers(wallet, ts)
          ELSE UNCHANGED <<eEscrow, wallet>>
       /\ UNCHANGED <<now, known, vault, cEscrow, cHist, relay, vLog, order, call, hook, storage>>

\* EscrowDst.withdraw: the secret argument is unused
withdraw(sender, secret) ==
    LET immutables == eEscrow.immutables
        allowed == /\ onlyValidImmutables(immutables)
                   /\ sender = immutables.taker
    IN EvmCall("Withdraw", sender, secret, allowed, withdrawTransfers(immutables))

\* EscrowDst.publicWithdraw
publicWithdraw(sender, secret) ==
    LET immutables == eEscrow.immutables
        allowed == /\ onlyAccessTokenHolder(sender)
                   /\ onlyValidImmutables(immutables)
                   /\ onlyValidSecret(secret, immutables)
                   /\ onlyAfter(TimelocksLib_get(immutables.timelocks, "DstPublicWithdrawal"))
                   /\ onlyBefore(TimelocksLib_get(immutables.timelocks, "DstCancellation"))
    IN EvmCall("PublicWithdraw", sender, secret, allowed, withdrawTransfers(immutables))

\* EscrowDst.cancel
cancel(sender) ==
    LET immutables == eEscrow.immutables
        allowed == /\ onlyTaker(sender, immutables)
                   /\ onlyValidImmutables(immutables)
                   /\ onlyAfter(TimelocksLib_get(immutables.timelocks, "DstCancellation"))
    IN EvmCall("Cancel", sender, NoSecret, allowed, cancelTransfers(immutables))

(************************ the websocket secret relay ***********************)

SrcFunded == cEscrow.state # "none"
DstFunded == eEscrow.deployed

\* message types the server pushes to a client
ServerEvents == {"order_update", "transaction_confirmed"}

\* useWebSocket.storeSecret, maker role: localStorage.setItem
storeSecret ==
    /\ ~relay.stored
    /\ relay' = [relay EXCEPT !.stored = TRUE]
    /\ UNCHANGED <<now, wallet, known, vault, cEscrow, cHist, eEscrow, eHist, log, vLog, order, call, hook, storage>>

\* the server pushes a status event to both clients
serverEvent ==
    /\ \E t \in ServerEvents :
        /\ t \notin relay.toMaker \/ t \notin relay.toResolver
        /\ relay' = [relay EXCEPT !.toMaker = @ \cup {t}, !.toResolver = @ \cup {t}]
    /\ UNCHANGED <<now, wallet, known, vault, cEscrow, cHist, eEscrow, eHist, log, vLog, order, call, hook, storage>>

\* monitorService.shareSecret: once both escrows exist, ask the maker
shareSecret ==
    /\ SrcFunded /\ DstFunded
    /\ "requestSecret" \notin relay.toMaker
    /\ relay.resolverSecret = NoSecret
    /\ relay' = [relay EXCEPT !.toMaker = @ \cup {"requestSecret"}]
    /\ UNCHANGED <<now, wallet, known, vault, cEscrow, cHist, eEscrow, eHist, log, vLog, order, call, hook, storage>>

\* what the maker's onmessage handler sends back for a message of type t
\* a handler that answers every message with the stored secret
makerReply_anyMessage(t, storedSecret) ==
    IF storedSecret THEN {"secret"} ELSE {}

makerReply(t, storedSecret) ==
    IF t = "requestSecret" /\ storedSecret THEN {"secret"} ELSE {}

\* useWebSocket.onmessage with role = 'maker'
makerOnMessage ==
    /\ \E t \in relay.toMaker :
        LET reply == makerReply(t, relay.stored)
        IN relay' = [relay EXCEPT !.toMaker = @ \ {t},
                                  !.toServer = @ \cup reply,
                                  !.sent = @ \/ reply # {}]
    /\ UNCHANGED <<now, wallet, known, vault, cEscrow, cHist, eEscrow, eHist, log, vLog, order, call, hook, storage>>

\* the server forwards the maker's secret message to the resolver's socket
serverForward ==
    /\ "secret" \in relay.toServer
    /\ relay' = [relay EXCEPT !.toServer = @ \ {"secret"}, !.toResolver = @ \cup {"secret"}]
    /\ UNCHANGED <<now, wallet, known, vault, cEscrow, cHist, eEscrow, eHist, log, vLog, order, call, hook, storage>>

\* useWebSocket.onmessage with role = 'resolver'
resolverOnMessage ==
    /\ \E t \in relay.toResolver :
        /\ relay' = [relay EXCEPT !.toResolver = @ \ {t},
                                  !.resolverSecret = IF t = "secret" THEN Secret ELSE @]
        /\ known' = IF t = "secret" THEN known \cup {"resolver"} ELSE known
    /\ UNCHANGED <<now, wallet, vault, cEscrow, cHist, eEscrow, eHist, log, vLog, order, call, hook, storage>>

(********************************* the clock *******************************)

Tick ==
    /\ now < StartTime + MaxTicks * HourMs
    /\ now' = now + HourMs
    /\ UNCHANGED <<wallet, known, vault, cEscrow, cHist, eEscrow, eHist, log, relay, vLog, order, call, hook, storage>>

(**************************** the swap as a whole **************************)

NoVLog == [ok |-> FALSE, tx |-> [signatories |-> {}, outputs |-> <<>>],
           redeemer |-> [resolver_pkh |-> "none", safety_deposit_amount |-> 0]]

Init ==
    /\ now = StartTime
    /\ wallet = InitWallet
    /\ known = {"maker"}
    /\ vault = NoVault
    /\ cEscrow = NoEscrow
    /\ log = NoLog
    /\ cHist = NoHist
    /\ eEscrow = NoDst
    /\ eHist = NoHist
    /\ relay = InitRelay
    /\ vLog = NoVLog
    /\ order = NoOrder
    /\ call = NoCall
    /\ hook = NoHook
    /\ storage = NoStorage

WithdrawFromSwap == \E p \in Parties : \E s \in Presentable(p) : \E fee \in 0..MaxFee : withdrawFromSwap(p, s, fee)
CancelSwap == \E p \in Parties : \E fee \in 0..MaxFee : cancelSwap(p, fee)
Withdraw == \E p \in Parties : \E s \in Presentable(p) : withdraw(p, s)
PublicWithdraw == \E p \in Parties : \E s \in Presentable(p) : publicWithdraw(p, s)
Cancel == \E p \in Parties : cancel(p)

Next ==
    \/ Tick
    \/ lockInAuthVault
    \/ createEscrowFromAuthVault
    \/ WithdrawFromSwap
    \/ CancelSwap
    \/ createDstEscrow
    \/ Withdraw
    \/ PublicWithdraw
    \/ Cancel
    \/ storeSecret
    \/ shareSecret
    \/ makerOnMessage
    \/ serverForward
    \/ resolverOnMessage

Spec == Init /\ [][Next]_vars

\* the relay on its own: the escrows are only created, and the server
\* pushes its status events at any time
NextRelay ==
    \/ lockInAuthVault
    \/ createEscrowFromAuthVault
    \/ createDstEscrow
    \/ storeSecret
    \/ serverEvent
    \/ shareSecret
    \/ makerOnMessage
    \/ serverForward
    \/ resolverOnMessage

SpecRelay == Init /\ [][NextRelay]_vars

(******************* the AuthVault against any transaction *****************)

\* outputs a spending transaction may carry: to one of two scripts or to a
\* key credential, with a value around maker_input_value + safety deposit
VaultOutputs ==
    [script : BOOLEAN, cred : {EscrowScriptHash, OtherScriptHash},
     lovelaces : {SrcAmount - 1, SrcAmount, SrcAmount + SafetyDeposit}]

MaxOutputs == 2

VaultTxs ==
    [signatories : SUBSET {"resolver", "third"},
     outputs : UNION {[1..n -> VaultOutputs] : n \in 0..MaxOutputs}]

\* safety_deposit_amount is an unchecked integer of the redeemer
VaultRedeemers ==
    [resolver_pkh : {"resolver", "third"}, safety_deposit_amount : {-1, 0, SafetyDeposit}]

\* a transaction that spends the vault UTXO with redeemer CreateEscrow: the
\* ledger runs authVaultValidator and applies the transaction only if it
\* passes.  A rejected transaction leaves the ledger as it was, so every
\* transaction is tried against the locked vault and a run stops after a
\* rejection; a spent vault is tried again with the transaction that spent it.
\* a ledger on which a spent output stays spendable
spendVault_reusable ==
    /\ vault.state # "none"
    /\ vault.spends < MaxSuccesses
    /\ vault.state = "locked" => vLog = NoVLog
    /\ \E tx \in (IF vault.state = "locked" THEN VaultTxs ELSE {vLog.tx}) :
       \E redeemer \in (IF vault.state = "locked" THEN VaultRedeemers ELSE {vLog.redeemer}) :
        LET ok == authVaultValidator(vault.datum, redeemer, tx)
        IN /\ vLog' = [ok |-> ok, tx |-> tx, redeemer |-> redeemer]
           /\ vault' = IF ok THEN [vault EXCEPT !.state = "spent", !.value = 0, !.spends = @ + 1] ELSE vault
    /\ UNCHANGED <<now, wallet, known, cEscrow, cHist, eEscrow, eHist, log, relay, order, call, hook, storage>>

spendVaultFrom(Txs) ==
    /\ vault.state # "none"
    /\ vault.state = "locked" => vLog = NoVLog
    /\ \E tx \in (IF vault.state = "locked" THEN Txs ELSE {vLog.tx}) :
       \E redeemer \in (IF vault.state = "locked" THEN VaultRedeemers ELSE {vLog.redeemer}) :
        LET ok == vault.state = "locked" /\ authVaultValidator(vault.datum, redeemer, tx)
        IN /\ vLog' = [ok |-> ok, tx |-> tx, redeemer |-> redeemer]
           /\ vault' = IF ok THEN [vault EXCEPT !.state = "spent", !.value = 0, !.spends = @ + 1] ELSE vault
    /\ UNCHANGED <<now, wallet, known, cEscrow, cHist, eEscrow, eHist, log, relay, order, call, hook, storage>>

spendVault == spendVaultFrom(VaultTxs)

NextVault ==
    \/ lockInAuthVault
    \/ spendVault

SpecVault == Init /\ [][NextVault]_vars

\* the same transactions with the datum of the output in view: the escrow
\* datum names the maker and the safety deposit of the escrow being created
EscrowOutputDatums == [maker_pkh : {"maker", "third"}, safety_deposit : {0, SafetyDeposit}]

DatumOutputs ==
    [script : BOOLEAN, cred : {EscrowScriptHash, OtherScriptHash},
     lovelaces : {SrcAmount - 1, SrcAmount, SrcAmount + SafetyDeposit},
     datum : EscrowOutputDatums]

DatumTxs ==
    [signatories : SUBSET {"resolver", "third"},
     outputs : {<<>>} \cup {<<o>> : o \in DatumOutputs}]

spendVaultDatum == spendVaultFrom(DatumTxs)

NextVaultDatum ==
    \/ lockInAuthVault
    \/ spendVaultDatum

SpecVaultDatum == Init /\ [][NextVaultDatum]_vars

(***************** Cardano: the escrow created by the maker ****************)

\* the maker holds escrowAmount and the safety deposit
InitDirect ==
    /\ now = StartTime
    /\ wallet = [InitWallet EXCEPT !["maker"].ada = SrcAmount + SafetyDeposit]
    /\ known = {"maker"}
    /\ vault = NoVault
    /\ cEscrow = NoEscrow
    /\ log = NoLog
    /\ cHist = NoHist
    /\ eEscrow = NoDst
    /\ eHist = NoHist
    /\ relay = InitRelay
    /\ vLog = NoVLog
    /\ order = NoOrder
    /\ call = NoCall
    /\ hook = NoHook
    /\ storage = NoStorage

\* createHash('keccak256').update(finalConfig.secret).digest()
createSwapEscrowHashlock(secret) == keccak256(secret)

\* createSwapEscrow: the maker pays escrowAmount + safetyDeposit to the
\* escrow script; no validator runs.  createHash('keccak256') throws on a
\* build of the crypto library without that digest, and then nothing is
\* created.
createSwapEscrowWith(cfg, digestSupported) ==
    /\ cEscrow.state = "none"
    /\ wallet["maker"].ada >= SrcAmount + SafetyDeposit
    /\ IF digestSupported
       THEN /\ cEscrow' = [state |-> "funded", value |-> SrcAmount + SafetyDeposit,
                           datum |-> [hashlock |-> createSwapEscrowHashlock(Secret),
                                      maker_pkh |-> "maker",
                                      resolver_pkh |-> "resolver",
                                      resolver_unlock_deadline |-> now + cfg.deadlineOffset * HourMs,
                                      resolver_cancel_deadline |-> now + cfg.cancelOffset * HourMs,
                                      public_cancel_deadline |-> now + cfg.publicOffset * HourMs,
                                      safety_deposit |-> SafetyDeposit]]
            /\ wallet' = Pay(wallet, "maker", "ada", 0 - (SrcAmount + SafetyDeposit))
            /\ call' = [fn |-> "createSwapEscrow", ok |-> TRUE]
       ELSE /\ call' = [fn |-> "createSwapEscrow", ok |-> FALSE]
            /\ UNCHANGED <<cEscrow, wallet>>
    /\ UNCHANGED <<now, known, vault, cHist, eEscrow, eHist, log, relay, vLog, order, hook, storage>>

createSwapEscrow == \E cfg \in Offsets : \E digestSupported \in BOOLEAN : createSwapEscrowWith(cfg, digestSupported)

NextDirect ==
    \/ Tick
    \/ lockInAuthVault
    \/ createEscrowFromAuthVault
    \/ createSwapEscrow
    \/ WithdrawFromSwap

SpecDirect == InitDirect /\ [][NextDirect]_vars

(**************** two vault records spent by one transaction ***************)

\* a second maker (third) holds escrowAmount lovelace of its own
InitVaults ==
    /\ now = StartTime
    /\ wallet = [InitWallet EXCEPT !["third"].ada = SrcAmount]
    /\ known = {"maker"}
    /\ vault = NoVault
    /\ cEscrow = NoEscrow
    /\ log = NoLog
    /\ cHist = NoHist
    /\ eEscrow = NoDst
    /\ eHist = NoHist
    /\ relay = InitRelay
    /\ vLog = NoVLog
    /\ order = NoOrder
    /\ call = NoCall
    /\ hook = NoHook
    /\ storage = NoStorage

\* lockInAuthVault run by the second maker: a second record at the vault
\* script, kept in call together with the redeemer it is later spent with
lockSecondVault ==
    /\ call = NoCall
    /\ wallet["third"].ada >= SrcAmount
    /\ wallet' = Pay(wallet, "third", "ada", 0 - SrcAmount)
    /\ call' = [fn |-> "secondVault",
                vault |-> [state |-> "locked", value |-> SrcAmount, spends |-> 0,
                           datum |-> [maker_pkh |-> "third",
                                      expected_escrow_script_hash |-> EscrowScriptHash,
                                      maker_input_value |-> SrcAmount]],
                redeemer |-> NoVLog.redeemer]
    /\ UNCHANGED <<now, known, vault, cEscrow, cHist, eEscrow, eHist, log, relay, vLog, order, hook, storage>>

\* one transaction with both records among its inputs: the ledger runs
\* authVaultValidator once for each input, each with its own datum and
\* redeemer and the same transaction, and applies the transaction only if
\* both runs pass
spendBothVaults ==
    /\ vault.state = "locked"
    /\ call.fn = "secondVault"
    /\ vLog = NoVLog
    /\ \E tx \in VaultTxs : \E r1 \in VaultRedeemers, r2 \in VaultRedeemers :
        LET ok == /\ authVaultValidator(vault.datum, r1, tx)
                  /\ authVaultValidator(call.vault.datum, r2, tx)
        IN /\ vLog' = [ok |-> ok, tx |-> tx, redeemer |-> r1]
           /\ vault' = IF ok THEN [vault EXCEPT !.state = "spent", !.value = 0, !.spends = @ + 1] ELSE vault
           /\ call' = IF ok
                      THEN [call EXCEPT !.redeemer = r2, !.vault.state = "spent",
                                        !.vault.value = 0, !.vault.spends = @ + 1]
                      ELSE [call EXCEPT !.redeemer = r2]
    /\ UNCHANGED <<now, wallet, known, cEscrow, cHist, eEscrow, eHist, log, relay, order, hook, storage>>

NextVaults ==
    \/ lockInAuthVault
    \/ lockSecondVault
    \/ spendBothVaults

SpecVaults == InitVaults /\ [][NextVaults]_vars

(***************** the escrow script against any transaction ***************)

\* offsets a caller may pass as config: the defaults and a cascade with
\* the cancel deadline before the unlock deadline
OffsetConfigs ==
    Offsets \cup {[deadlineOffset |-> 2, cancelOffset |-> 1, publicOffset |-> 3]}

createEscrowAnyConfig == \E cfg \in OffsetConfigs : createEscrowFromAuthVaultWith(cfg)

MaxEscrowTicks == 4

TickEscrow ==
    /\ now < StartTime + MaxEscrowTicks * HourMs
    /\ now' = now + HourMs
    /\ UNCHANGED <<wallet, known, vault, cEscrow, cHist, eEscrow, eHist, log, relay, vLog, order, call, hook, storage>>

EscrowRedeemers(p) ==
    {[tag |-> "Withdraw", secret |-> s] : s \in Presentable(p)} \cup {[tag |-> "Cancel", secret |-> NoSecret]}

\* validity intervals the ledger accepts at the current time
LowerBounds == {NoBound, now}
UpperBounds == {NoBound, now, now + ValidityWindowMs}

\* a transaction of party p that spends the escrow UTXO: the ledger runs
\* `escrow` and applies the transaction only if it passes.  The script
\* constrains no output, so the spender sends the value to a party r of
\* its choice.
spendEscrow(p, redeemer, lower, upper, r) ==
    LET tx == [signatories |-> {p}, lower |-> lower, upper |-> upper]
        ok == escrow(cEscrow.datum, redeemer, tx)
    IN /\ cEscrow.state = "funded"
       /\ log' = [chain |-> "cardano", op |-> redeemer.tag, ok |-> ok, actor |-> p,
                  secret |-> redeemer.secret, lower |-> lower, upper |-> upper, to |-> r]
       /\ cHist' = Attempt(cHist, ok, cEscrow.value)
       /\ IF ok
          THEN /\ cEscrow' = [cEscrow EXCEPT !.state = IF redeemer.tag = "Withdraw" THEN "withdrawn" ELSE "cancelled",
                                             !.value = 0]
               /\ wallet' = Pay(wallet, r, "ada", cEscrow.value)
               /\ known' = IF redeemer.tag = "Withdraw" THEN Parties ELSE known
          ELSE UNCHANGED <<cEscrow, wallet, known>>
       /\ UNCHANGED <<now, vault, eEscrow, eHist, relay, vLog, order, call, hook, storage>>

SpendEscrow ==
    \E p \in Parties : \E redeemer \in EscrowRedeemers(p) :
    \E lower \in LowerBounds : \E upper \in UpperBounds : \E r \in Parties :
        spendEscrow(p, redeemer, lower, upper, r)

NextEscrow ==
    \/ TickEscrow
    \/ lockInAuthVault
    \/ createEscrowAnyConfig
    \/ SpendEscrow

SpecEscrow == Init /\ [][NextEscrow]_vars

(******************** EVM: the signed order and createSrcEscrow ************)

\* create-signed-order.js getSwapParameters: the default deadline
DeadlineSeconds == 3600
ZeroAddress == "0x0"
MaxAttempts == 3

\* Math.floor(Date.now() / 1000)
dateNowSeconds == now \div MsPerSecond

\* the maker signs an order; the file the resolver later loads names the
\* zero address or a designated resolver.  The signature is kept as the
\* signer and the resolver field it was made over (the other signed fields
\* are never altered by the script).
Resolvers == {ZeroAddress, "resolver", "third"}

createSignedOrder ==
    /\ order.state = "none"
    /\ \E r \in Resolvers : \E sr \in Resolvers : \E signer \in {"maker", "third"} :
         order' = [order EXCEPT !.state = "signed",
                                !.signed = [maker |-> "maker", resolver |-> r,
                                            ethAmount |-> DstAmount,
                                            safetyDeposit |-> EvmSafetyDeposit,
                                            deadline |-> dateNowSeconds + DeadlineSeconds,
                                            signature |-> [signer |-> signer, resolver |-> sr]]]
    /\ UNCHANGED <<now, wallet, known, vault, cEscrow, cHist, eEscrow, eHist, log, relay, vLog, call, hook, storage>>

\* the expiry check without effect
orderExpired_never(signedOrder, t) == FALSE

\* "Check order deadline" of the resolver's script
orderExpired(signedOrder, t) == signedOrder.deadline < t

\* a signature check that accepts every order
verifyOrderSignature_any(signedOrder) == TRUE

\* verifyOrderSignature: the message hash is rebuilt from the order's fields,
\* signedOrder.resolver among them, and the recovered signer must be the maker
verifyOrderSignature(signedOrder) ==
    /\ signedOrder.signature.signer = signedOrder.maker
    /\ signedOrder.signature.resolver = signedOrder.resolver

\* "Update resolver address in the order (if not set)": in memory only
withResolver(signedOrder, p) ==
    IF signedOrder.resolver = ZeroAddress THEN [signedOrder EXCEPT !.resolver = p] ELSE signedOrder

\* the escrow immutables the script builds from the order
srcImmutables(signedOrder, p) ==
    [maker |-> signedOrder.maker, taker |-> p, amount |-> signedOrder.ethAmount,
     safetyDeposit |-> signedOrder.safetyDeposit]

\* EscrowFactory: the escrow is a CREATE2 proxy whose address is a function
\* of the immutables, so a second deployment for equal immutables reverts.
addressOfEscrowSrc(immutables) == <<"create2", immutables>>

escrowDeployed(address) == \E e \in order.srcEscrows : e.address = address

\* main of the resolver's script: the checks in the order of the code, then
\* createSrcEscrow carrying amount + safety deposit out of the caller's wallet.
createSrcEscrowError(p) ==
    LET signedOrder == withResolver(order.signed, p)
        totalEthNeeded == signedOrder.ethAmount + signedOrder.safetyDeposit
    IN IF order.signed.resolver # ZeroAddress /\ order.signed.resolver # p THEN "designated"
       ELSE IF ~verifyOrderSignature(signedOrder) THEN "signature"
       ELSE IF orderExpired(signedOrder, dateNowSeconds) THEN "expired"
       ELSE IF wallet[signedOrder.maker].eth < signedOrder.ethAmount THEN "makerBalance"
       ELSE IF wallet[p].eth < signedOrder.safetyDeposit THEN "resolverBalance"
       ELSE IF wallet[p].eth < totalEthNeeded THEN "reverted"
       ELSE IF escrowDeployed(addressOfEscrowSrc(srcImmutables(signedOrder, p))) THEN "deployed"
       ELSE "none"

createSrcEscrow(p) ==
    LET signedOrder == withResolver(order.signed, p)
        totalEthNeeded == signedOrder.ethAmount + signedOrder.safetyDeposit
        immutables == srcImmutables(signedOrder, p)
        error == createSrcEscrowError(p)
    IN /\ order.state = "signed"
       /\ order.attempts < MaxAttempts
       /\ IF error = "none"
          THEN /\ wallet' = Pay(wallet, p, "eth", 0 - totalEthNeeded)
               /\ order' = [order EXCEPT !.attempts = @ + 1,
                                         !.srcEscrows = @ \cup {[address |-> addressOfEscrowSrc(immutables),
                                                                 immutables |-> immutables,
                                                                 value |-> totalEthNeeded,
                                                                 prefunded |-> 0,
                                                                 createdAt |-> dateNowSeconds]},
                                         !.last = [actor |-> p, at |-> dateNowSeconds,
                                                   ok |-> TRUE, error |-> error]]
          ELSE /\ wallet' = wallet
               /\ order' = [order EXCEPT !.attempts = @ + 1,
                                         !.last = [actor |-> p, at |-> dateNowSeconds,
                                                   ok |-> FALSE, error |-> error]]
       /\ UNCHANGED <<now, known, vault, cEscrow, cHist, eEscrow, eHist, log, relay, vLog, call, hook, storage>>

CreateSrcEscrow == \E p \in Parties : createSrcEscrow(p)

\* the wallets of the ETH -> ADA direction: the maker holds the ETH to swap
InitOrder ==
    /\ now = StartTime
    /\ \E makerBalance \in {0, DstAmount} :
         wallet = [p \in Parties |->
                     [ada |-> InitWallet[p].ada,
                      eth |-> IF p = "maker" THEN makerBalance
                              ELSE MaxAttempts * (DstAmount + EvmSafetyDeposit)]]
    /\ known = {"maker"}
    /\ vault = NoVault
    /\ cEscrow = NoEscrow
    /\ log = NoLog
    /\ cHist = NoHist
    /\ eEscrow = NoDst
    /\ eHist = NoHist
    /\ relay = InitRelay
    /\ vLog = NoVLog
    /\ order = NoOrder
    /\ call = NoCall
    /\ hook = NoHook
    /\ storage = NoStorage

NextOrder ==
    \/ TickEscrow
    \/ createSignedOrder
    \/ CreateSrcEscrow

SpecOrder == InitOrder /\ [][NextOrder]_vars

(************* EVM: pre-funding the escrow's deterministic address *********)

\* maker-preinteraction.js: the maker sends makingAmount with preInteraction;
\* the LimitOrderProtocol validates the signature and locks the ETH.
preInteractionValid(signedOrder) == signedOrder.signature.signer = signedOrder.maker

makerPreInteraction ==
    LET signedOrder == order.signed
        ethAmount == signedOrder.ethAmount
    IN /\ order.state = "signed"
       /\ wallet[signedOrder.maker].eth >= ethAmount
       /\ preInteractionValid(signedOrder)
       /\ wallet' = Pay(wallet, signedOrder.maker, "eth", 0 - ethAmount)
       /\ order' = [order EXCEPT !.lop = @ + ethAmount]
       /\ UNCHANGED <<now, known, vault, cEscrow, cHist, eEscrow, eHist, log, relay, vLog, call, hook, storage>>

\* ETH held at an address before any escrow is deployed there; order.prefund
\* is the set of transfers made to such addresses
balanceAt(address) ==
    LET sent == {f \in order.prefund : f.address = address}
    IN IF sent = {} THEN 0 ELSE (CHOOSE f \in sent : TRUE).value

\* a plain transfer to the address of the escrow with taker `taker` and
\* safety deposit `safetyDeposit`
sendTransaction(p, taker, safetyDeposit, value) ==
    LET address == addressOfEscrowSrc(srcImmutables([order.signed EXCEPT !.safetyDeposit = safetyDeposit], taker))
    IN /\ order.state = "signed"
       /\ wallet[p].eth >= value
       /\ balanceAt(address) = 0
       /\ ~escrowDeployed(address)
       /\ wallet' = Pay(wallet, p, "eth", 0 - value)
       /\ order' = [order EXCEPT !.prefund = @ \cup {[address |-> address, value |-> value]}]
       /\ UNCHANGED <<now, known, vault, cEscrow, cHist, eEscrow, eHist, log, relay, vLog, call, hook, storage>>

\* an instantiation that does not look at the balance of the address
sufficientEscrowBalance_unchecked(balance, safetyDeposit) == TRUE

\* EscrowFactory._postInteraction: escrow.balance < immutables.safetyDeposit
\* reverts with InsufficientEscrowBalance
sufficientEscrowBalance(balance, safetyDeposit) == ~(balance < safetyDeposit)

\* LimitOrderProtocol.postInteraction(orderHash, escrowFactory, safetyDeposit)
\* called by p: moves the maker's locked ETH to the escrow created at the
\* address computed from the immutables, p being the taker.
postInteractionError(p, safetyDeposit) ==
    LET signedOrder == [order.signed EXCEPT !.safetyDeposit = safetyDeposit]
        address == addressOfEscrowSrc(srcImmutables(signedOrder, p))
    IN IF order.lop < signedOrder.ethAmount THEN "notValidated"
       ELSE IF escrowDeployed(address) THEN "deployed"
       ELSE IF ~sufficientEscrowBalance(balanceAt(address), safetyDeposit) THEN "InsufficientEscrowBalance"
       ELSE "none"

postInteraction(p, safetyDeposit) ==
    LET signedOrder == [order.signed EXCEPT !.safetyDeposit = safetyDeposit]
        immutables == srcImmutables(signedOrder, p)
        address == addressOfEscrowSrc(immutables)
        error == postInteractionError(p, safetyDeposit)
    IN /\ order.state = "signed"
       /\ order.attempts < MaxAttempts
       /\ IF error = "none"
          THEN order' = [order EXCEPT !.attempts = @ + 1,
                                      !.lop = @ - signedOrder.ethAmount,
                                      !.srcEscrows = @ \cup {[address |-> address,
                                                              immutables |-> immutables,
                                                              value |-> balanceAt(address) + signedOrder.ethAmount,
                                                              prefunded |-> balanceAt(address),
                                                              createdAt |-> dateNowSeconds]},
                                      !.last = [actor |-> p, at |-> dateNowSeconds,
                                                ok |-> TRUE, error |-> error]]
          ELSE order' = [order EXCEPT !.attempts = @ + 1,
                                      !.last = [actor |-> p, at |-> dateNowSeconds,
                                                ok |-> FALSE, error |-> error]]
       /\ UNCHANGED <<now, wallet, known, vault, cEscrow, cHist, eEscrow, eHist, log, relay, vLog, call, hook, storage>>

\* the resolver's script and the order page: pre-fund the safety deposit of
\* the order to the computed address, wait, then call postInteraction.  The
\* two are separate transactions and may be interleaved with others.
DeclaredDeposits == 0..EvmSafetyDeposit

PreFund ==
    \E p \in {"resolver", "third"} : \E taker \in {"resolver", "third"} :
    \E safetyDeposit \in DeclaredDeposits : \E value \in 1..EvmSafetyDeposit :
        sendTransaction(p, taker, safetyDeposit, value)

PostInteraction ==
    \E p \in {"resolver", "third"} : \E safetyDeposit \in DeclaredDeposits : postInteraction(p, safetyDeposit)

NextPrefund ==
    \/ createSignedOrder
    \/ makerPreInteraction
    \/ PreFund
    \/ PostInteraction

SpecPrefund == InitOrder /\ [][NextPrefund]_vars

(********************* secrets and hashlocks as strings ********************)

\* a string is a sequence of characters; the alphabet has a hex digit in
\* both cases, a decimal digit and a letter that is not a hex digit
Chars == {"a", "A", "1", "g"}
MaxSecretLen == 2
SecretStrings == UNION {[1..n -> Chars] : n \in 1..MaxSecretLen}

\* value of a hex digit, -1 for any other character
hexDigit(c) ==
    IF c = "0" THEN 0 ELSE IF c = "1" THEN 1 ELSE IF c = "a" \/ c = "A" THEN 10 ELSE -1

\* Buffer.from(str, 'hex'): one byte per pair of hex digits, read up to the
\* first pair that is incomplete or holds a character that is no hex digit
RECURSIVE BufferFromHex(_)
BufferFromHex(str) ==
    IF Len(str) < 2 \/ hexDigit(str[1]) < 0 \/ hexDigit(str[2]) < 0
    THEN <<>>
    ELSE <<16 * hexDigit(str[1]) + hexDigit(str[2])>> \o BufferFromHex(SubSeq(str, 3, Len(str)))

\* Buffer.from(str, 'utf8') on these characters: one byte per character
utf8Byte(c) ==
    IF c = "a" THEN 97 ELSE IF c = "A" THEN 65 ELSE IF c = "1" THEN 49 ELSE 103

BufferFromUtf8(str) == [i \in 1..Len(str) |-> utf8Byte(str[i])]

\* secretManager.js
createSecretHash(secret) == psha2_256(BufferFromHex(secret))

validateSecretAgainstHashlock(secret, hashlock) == createSecretHash(secret) = hashlock

\* SwapValidation.validateSecret and the hashlock the Cardano scripts build
\* for it (sha256 of the UTF-8 bytes)
hashOfUtf8(secret) == psha2_256(BufferFromUtf8(secret))

validateSecretUtf8(secret, expectedHashHex) == hashOfUtf8(secret) = expectedHashHex

\* a secret s2 is committed to and a secret s1 is checked against the commitment
callValidateSecretAgainstHashlock ==
    /\ call = NoCall
    /\ \E s1 \in SecretStrings : \E s2 \in SecretStrings :
         call' = [fn |-> "validateSecretAgainstHashlock", secret |-> s1, committed |-> s2,
                  result |-> validateSecretAgainstHashlock(s1, createSecretHash(s2))]
    /\ UNCHANGED <<now, wallet, known, vault, cEscrow, cHist, eEscrow, eHist, log, relay, vLog, order, hook, storage>>

callValidateSecret ==
    /\ call = NoCall
    /\ \E s1 \in SecretStrings : \E s2 \in SecretStrings :
         call' = [fn |-> "validateSecret", secret |-> s1, committed |-> s2,
                  result |-> validateSecretUtf8(s1, hashOfUtf8(s2))]
    /\ UNCHANGED <<now, wallet, known, vault, cEscrow, cHist, eEscrow, eHist, log, relay, vLog, order, hook, storage>>

NextSecret ==
    \/ callValidateSecretAgainstHashlock
    \/ callValidateSecret

SpecSecret == Init /\ [][NextSecret]_vars

(****************** the order page: deploying the two escrows **************)

\* digest('hex') of a hash: 2 * HashBytes lower-case hex digits
HashBytes == 2
HexDigests == [1..(2 * HashBytes) -> {"0", "1", "a"}]

\* computeHashlock: `0x${hash}`
computeHashlock(hash) == <<"0", "x">> \o hash

\* String.prototype.replace("0x", ""): the first occurrence is removed
RECURSIVE replace0x(_)
replace0x(str) ==
    IF Len(str) < 2 THEN str
    ELSE IF str[1] = "0" /\ str[2] = "x" THEN SubSeq(str, 3, Len(str))
    ELSE <<str[1]>> \o replace0x(Tail(str))

isHex(str) == Len(str) % 2 = 0 /\ \A i \in 1..Len(str) : hexDigit(str[i]) >= 0

\* pByteString(hex string): the bytes the datum carries
pByteString(str) == IF isHex(str) THEN BufferFromHex(str) ELSE <<"invalid">>

\* a `0x${string}` argument encoded as bytes32
bytes32(str) ==
    IF Len(str) >= 2 /\ str[1] = "0" /\ str[2] = "x" /\ isHex(SubSeq(str, 3, Len(str)))
    THEN BufferFromHex(SubSeq(str, 3, Len(str)))
    ELSE <<"invalid">>

\* handleSwap: the maker's page creates the order with the hashlock of a
\* fresh secret
handleSwap ==
    /\ order.page.state = "none"
    /\ \E hash \in HexDigests : \E dir \in {<<"EVM", "Cardano">>, <<"Cardano", "EVM">>} :
         order' = [order EXCEPT !.page.state = "created",
                                !.page.fromChain = dir[1],
                                !.page.toChain = dir[2],
                                !.page.hashlock = computeHashlock(hash)]
    /\ UNCHANGED <<now, wallet, known, vault, cEscrow, cHist, eEscrow, eHist, log, relay, vLog, call, hook, storage>>

\* a handler that hashes a secret of its own instead of reading the order
escrowHashlock_own(chain, hashlock) == <<"own">>

\* the hashlock each handler puts into the escrow it creates: immutables on
\* the EVM, the datum on Cardano
escrowHashlock(chain, hashlock) ==
    IF chain = "EVM" THEN bytes32(hashlock) ELSE pByteString(replace0x(hashlock))

handleDeploySrcEscrow ==
    /\ order.page.state = "created"
    /\ order.page.src.chain = "none"
    /\ order' = [order EXCEPT !.page.src = [chain |-> order.page.fromChain,
                                            hashlock |-> escrowHashlock(order.page.fromChain, order.page.hashlock)]]
    /\ UNCHANGED <<now, wallet, known, vault, cEscrow, cHist, eEscrow, eHist, log, relay, vLog, call, hook, storage>>

handleDeployDstEscrow ==
    /\ order.page.state = "created"
    /\ order.page.dst.chain = "none"
    /\ order' = [order EXCEPT !.page.dst = [chain |-> order.page.toChain,
                                            hashlock |-> escrowHashlock(order.page.toChain, order.page.hashlock)]]
    /\ UNCHANGED <<now, wallet, known, vault, cEscrow, cHist, eEscrow, eHist, log, relay, vLog, call, hook, storage>>

NextPage ==
    \/ handleSwap
    \/ handleDeploySrcEscrow
    \/ handleDeployDstEscrow

SpecPage == Init /\ [][NextPage]_vars

(******************** the order page: running a step ***********************)

\* the steps the page offers
StepActions == {"acceptOrder", "deploySrcEscrow", "deployDstEscrow"}

MaxCalls == 4

\* a handler that runs whatever the flag says
mayRun_always(isProcessing) == TRUE

\* if (isProcessing) return
mayRun(isProcessing) == ~isProcessing

\* handleStepAction(action) up to its first await.  The handler is the one
\* of the last render and sees the isProcessing of that render
\* (page.rendered).  setIsProcessing(true) is a state update made inside a
\* click handler, which React commits and renders before it delivers the
\* next event, so the next handler sees it.
handleStepAction(action) ==
    /\ order.page.calls < MaxCalls
    /\ IF mayRun(order.page.rendered)
       THEN order' = [order EXCEPT !.page.isProcessing = TRUE,
                                   !.page.rendered = TRUE,
                                   !.page.running = @ \cup {action},
                                   !.page.calls = @ + 1,
                                   !.page.lastCall = [action |-> action, ran |-> TRUE]]
       ELSE order' = [order EXCEPT !.page.calls = @ + 1,
                                   !.page.lastCall = [action |-> action, ran |-> FALSE]]
    /\ UNCHANGED <<now, wallet, known, vault, cEscrow, cHist, eEscrow, eHist, log, relay, vLog, call, hook, storage>>

\* the awaited action returns or throws: the step is marked completed only
\* when it returned; finally setIsProcessing(false), which is rendered later
stepSettles(action, threw) ==
    /\ action \in order.page.running
    /\ order' = [order EXCEPT !.page.running = @ \ {action},
                              !.page.completed = IF threw THEN @ ELSE @ \cup {action},
                              !.page.isProcessing = FALSE]
    /\ UNCHANGED <<now, wallet, known, vault, cEscrow, cHist, eEscrow, eHist, log, relay, vLog, call, hook, storage>>

\* React renders the page with the current state
renderPage ==
    /\ order.page.rendered # order.page.isProcessing
    /\ order' = [order EXCEPT !.page.rendered = order.page.isProcessing]
    /\ UNCHANGED <<now, wallet, known, vault, cEscrow, cHist, eEscrow, eHist, log, relay, vLog, call, hook, storage>>

HandleStepAction == \E action \in StepActions : handleStepAction(action)
StepSettles == \E action \in StepActions : \E threw \in BOOLEAN : stepSettles(action, threw)

NextSteps ==
    \/ HandleStepAction
    \/ StepSettles
    \/ renderPage

SpecSteps == Init /\ [][NextSteps]_vars

(*************** the resolver's socket: receiving the secret ***************)

\* messages the resolver's socket may receive; a secret message may carry
\* the secret, another value, or no secret field at all
SocketMessages ==
    [type : {"secret", "requestSecret"} \cup ServerEvents, secret : Secrets \cup {NoSecret}]

MaxDeliveries == 3

\* a handler that takes a secret it already holds as withdrawn
onMessageSecret_toggle(current, data) ==
    IF data.type = "secret"
    THEN (IF current = data.secret THEN NoSecret ELSE data.secret)
    ELSE current

\* onmessage, role = 'resolver': secret.current = data.secret || null
onMessageSecret(current, data) ==
    IF data.type = "secret" THEN data.secret ELSE current

\* a message arrives at the resolver's socket; the network may deliver the
\* message it delivered last once more
deliver(data) ==
    /\ (IF call.fn = "none" THEN TRUE ELSE call.n < MaxDeliveries)
    /\ relay' = [relay EXCEPT !.resolverSecret = onMessageSecret(@, data)]
    /\ call' = [fn |-> "onmessage", data |-> data,
                n |-> IF call.fn = "none" THEN 1 ELSE call.n + 1,
                repeated |-> IF call.fn = "none" THEN FALSE ELSE call.data = data]
    /\ UNCHANGED <<now, wallet, known, vault, cEscrow, cHist, eEscrow, eHist, log, vLog, order, hook, storage>>

Deliver == \E data \in SocketMessages : deliver(data)

\* the order page polls getSecret() every second and, when there is a
\* secret, marks the shareSecret step completed and stores the secret
checkForSecret ==
    /\ call.fn # "none"
    /\ LET secret == relay.resolverSecret
       IN IF secret # NoSecret
          THEN order' = [order EXCEPT !.page.secret = secret, !.page.shareSecret = "completed"]
          ELSE order' = order
    /\ UNCHANGED <<now, wallet, known, vault, cEscrow, cHist, eEscrow, eHist, log, relay, vLog, call, hook, storage>>

NextDelivery ==
    \/ Deliver
    \/ checkForSecret

SpecDelivery == Init /\ [][NextDelivery]_vars

(************************ EVM: the hash of an order ************************)

\* the swap parameters of swap-config.json (makerAsset and receiver are the
\* zero address)
SwapParams ==
    [makingAmount : {DstAmount, DstAmount + 1},
     adaAmount : {SrcAmount, SrcAmount + 1},
     cardanoAddress : {"addr_maker", "addr_third"},
     safetyDeposit : {EvmSafetyDeposit, EvmSafetyDeposit + 1},
     salt : {0, 1},
     deadline : {StartTime \div MsPerSecond + DeadlineSeconds,
                 StartTime \div MsPerSecond + 2 * DeadlineSeconds}]

Hashlocks == {keccak256(s) : s \in Secrets}

\* the EIP-712 domain: name and version of limit-order-config.json, the
\* chain and the deployed LimitOrderProtocol
Domains ==
    [name : {"Atomic Swap Limit Order Protocol"}, version : {"1.0.0"},
     chainId : {"sepolia"}, verifyingContract : {"lop", "lop2"}]

\* the order of the script: the eight fields of IAtomicSwapLOP.Order
orderOf(maker, swapParams, hashlock) ==
    [maker |-> maker,
     makerAsset |-> ZeroAddress,
     takerAsset |-> ZeroAddress,
     makingAmount |-> swapParams.makingAmount,
     takingAmount |-> swapParams.safetyDeposit,
     receiver |-> ZeroAddress,
     hashlock |-> hashlock,
     salt |-> swapParams.salt]

\* the metadata the script keeps beside the order
orderMetadataOf(swapParams) ==
    [adaAmount |-> swapParams.adaAmount,
     cardanoAddress |-> swapParams.cardanoAddress,
     safetyDeposit |-> swapParams.safetyDeposit,
     deadline |-> swapParams.deadline]

\* ethers.TypedDataEncoder.hash: injective in the domain and in the value
\* of every field of the type
hashTypedData(domain, orderValue) ==
    <<"eip712", domain.name, domain.version, domain.chainId, domain.verifyingContract,
      orderValue.maker, orderValue.makerAsset, orderValue.takerAsset,
      orderValue.makingAmount, orderValue.takingAmount, orderValue.receiver,
      orderValue.hashlock, orderValue.salt>>

createOrderHash(domain, orderValue) == hashTypedData(domain, orderValue)

\* the signed order data of one run of the script: order, metadata and hash
signedOrderData(domain, swapParams, hashlock) ==
    [order |-> orderOf("maker", swapParams, hashlock),
     metadata |-> orderMetadataOf(swapParams),
     domain |-> domain,
     orderHash |-> createOrderHash(domain, orderOf("maker", swapParams, hashlock))]

\* two runs of the script
callCreateOrderHash ==
    /\ call = NoCall
    /\ \E d1 \in Domains, d2 \in Domains, p1 \in SwapParams, p2 \in SwapParams,
          h1 \in Hashlocks, h2 \in Hashlocks :
           call' = [fn |-> "createOrderHash",
                    a |-> signedOrderData(d1, p1, h1),
                    b |-> signedOrderData(d2, p2, h2)]
    /\ UNCHANGED <<now, wallet, known, vault, cEscrow, cHist, eEscrow, eHist, log, relay, vLog, order, hook, storage>>

NextOrderHash == callCreateOrderHash

SpecOrderHash == Init /\ [][NextOrderHash]_vars

(*********************** the client secret store ***************************)

MaxOps == 4

\* JSON.parse(localStorage.getItem('cardano_swap_secret_index') || '[]'):
\* the keys of the index, none when the item is absent; an item that holds
\* the JSON of a secret parses to an object, on which includes, filter and
\* forEach are not functions
indexIsArray(items) == items["index"].kind # "secret"
parsedIndex(items) == IF items["index"].kind = "index" THEN items["index"].keys ELSE <<>>

RECURSIVE filterOut(_, _)
filterOut(s, key) ==
    IF s = <<>> THEN <<>>
    ELSE IF Head(s) = key THEN filterOut(Tail(s), key)
         ELSE <<Head(s)>> \o filterOut(Tail(s), key)

includes(s, key) == \E i \in 1..Len(s) : s[i] = key

\* storeSecretToLocalStorage(key, secret): setItem of the secret, then the
\* index is read and the key pushed when it is not in it
storeSecretToLocalStorage(items, key, secret) ==
    LET withSecret == [items EXCEPT ![key] = [kind |-> "secret", secret |-> secret]]
    IN IF ~indexIsArray(withSecret)
       THEN [items |-> withSecret, threw |-> TRUE]
       ELSE IF ~includes(parsedIndex(withSecret), key)
            THEN [items |-> [withSecret EXCEPT !["index"] =
                                [kind |-> "index", keys |-> Append(parsedIndex(withSecret), key)]],
                  threw |-> FALSE]
            ELSE [items |-> withSecret, threw |-> FALSE]

\* removeSecretFromLocalStorage(key): removeItem, then the filtered index is
\* written back
removeSecretFromLocalStorage(items, key) ==
    LET removed == [items EXCEPT ![key] = Absent]
    IN IF ~indexIsArray(removed)
       THEN [items |-> removed, threw |-> TRUE]
       ELSE [items |-> [removed EXCEPT !["index"] =
                           [kind |-> "index", keys |-> filterOut(parsedIndex(removed), key)]],
             threw |-> FALSE]

\* clearAllStoredSecrets(): removeItem for every key of the index, then for
\* the index
clearAllStoredSecrets(items) ==
    IF ~indexIsArray(items)
    THEN [items |-> items, threw |-> TRUE]
    ELSE [items |-> [k \in StoreKeys |->
                        IF k = "index" \/ includes(parsedIndex(items), k) THEN Absent ELSE items[k]],
          threw |-> FALSE]

Stored(op, key, r) ==
    /\ storage.ops < MaxOps
    /\ storage' = [items |-> r.items, ops |-> storage.ops + 1,
                   last |-> [op |-> op, key |-> key, threw |-> r.threw]]
    /\ UNCHANGED <<now, wallet, known, vault, cEscrow, cHist, eEscrow, eHist, log, relay, vLog, order, call, hook>>

StoreSecret == \E key \in StoreKeys : \E secret \in Secrets :
    Stored("store", key, storeSecretToLocalStorage(storage.items, key, secret))
RemoveSecret == \E key \in StoreKeys :
    Stored("remove", key, removeSecretFromLocalStorage(storage.items, key))
ClearSecrets == Stored("clear", "none", clearAllStoredSecrets(storage.items))

NextStore ==
    \/ StoreSecret
    \/ RemoveSecret
    \/ ClearSecrets

SpecStore == Init /\ [][NextStore]_vars

(************************* the useWebSocket hook ***************************)

maxReconnectAttempts == 5
reconnectDelay == 3000

MaxSockets == 6
MaxHookTicks == 2

\* connect(): nothing when ws.current is OPEN (or when there is no orderId),
\* else ws.current = new WebSocket(...); the socket ws.current referred to
\* is not closed and keeps its handlers
connect(h) ==
    IF h.current = "OPEN"
    THEN h
    ELSE [h EXCEPT !.current = "CONNECTING",
                   !.created = @ + 1,
                   !.strayConnecting = @ + (IF h.current = "CONNECTING" THEN 1 ELSE 0)]

\* connect is possible within the bound on created sockets
CanConnect(h) == h.current = "OPEN" \/ h.created < MaxSockets

\* the component mounts the hook with a role and an orderId; the effect
\* calls connect()
useWebSocket(role) ==
    /\ hook = NoHook
    /\ hook' = connect([hook EXCEPT !.role = role, !.mounted = TRUE])
    /\ UNCHANGED <<now, wallet, known, vault, cEscrow, cHist, eEscrow, eHist, log, relay, vLog, order, call, storage>>

\* connect is called once more: through the function the hook returns, or
\* by the effect when it runs again
callConnect ==
    /\ hook.mounted
    /\ CanConnect(hook)
    /\ hook' = connect(hook)
    /\ UNCHANGED <<now, wallet, known, vault, cEscrow, cHist, eEscrow, eHist, log, relay, vLog, order, call, storage>>

\* a reconnect timer that is due fires: connect()
timerFires ==
    /\ hook.timers # <<>>
    /\ Head(hook.timers) <= now
    /\ CanConnect(hook)
    /\ hook' = connect([hook EXCEPT !.timers = Tail(@)])
    /\ UNCHANGED <<now, wallet, known, vault, cEscrow, cHist, eEscrow, eHist, log, relay, vLog, order, call, storage>>

\* onopen: reconnectAttempts.current = 0 (and the register message)
onopen_noReset(h) == h

onopen(h) == [h EXCEPT !.reconnectAttempts = 0]

\* a connecting socket opens: the one in ws.current or an earlier one
socketOpens ==
    /\ \E which \in {"current", "stray"} :
        /\ IF which = "current" THEN hook.current = "CONNECTING" ELSE hook.strayConnecting > 0
        /\ LET opened == IF which = "current"
                         THEN [hook EXCEPT !.current = "OPEN", !.sinceOpen = 0]
                         ELSE [hook EXCEPT !.strayConnecting = @ - 1, !.strayOpen = @ + 1,
                                           !.sinceOpen = 0]
           IN hook' = onopen(opened)
    /\ UNCHANGED <<now, wallet, known, vault, cEscrow, cHist, eEscrow, eHist, log, relay, vLog, order, call, storage>>

\* an onclose that always schedules a reconnect
onclose_unbounded(h, t) ==
    [h EXCEPT !.reconnectAttempts = @ + 1,
              !.timers = Append(@, t + reconnectDelay),
              !.sinceOpen = @ + 1]

\* onclose at time t: while reconnectAttempts < maxReconnectAttempts, count
\* the attempt and setTimeout(connect, reconnectDelay)
onclose(h, t) ==
    IF h.reconnectAttempts < maxReconnectAttempts
    THEN [h EXCEPT !.reconnectAttempts = @ + 1,
                   !.timers = Append(@, t + reconnectDelay),
                   !.sinceOpen = @ + 1]
    ELSE h

\* a connecting or open socket closes (the server is away, the network
\* fails): the one in ws.current or an earlier one
socketCloses ==
    /\ \E which \in {"current", "strayConnecting", "strayOpen"} :
        /\ CASE which = "current" -> hook.current \in {"CONNECTING", "OPEN"}
             [] which = "strayConnecting" -> hook.strayConnecting > 0
             [] OTHER -> hook.strayOpen > 0
        /\ LET closed == CASE which = "current" -> [hook EXCEPT !.current = "CLOSED"]
                           [] which = "strayConnecting" -> [hook EXCEPT !.strayConnecting = @ - 1]
                           [] OTHER -> [hook EXCEPT !.strayOpen = @ - 1]
           IN hook' = onclose(closed, now)
    /\ UNCHANGED <<now, wallet, known, vault, cEscrow, cHist, eEscrow, eHist, log, relay, vLog, order, call, storage>>

\* ws.current?.send(message): the message leaves only through an open socket
send(h, message) ==
    IF h.current = "OPEN" THEN [h EXCEPT !.sent = Append(@, message)] ELSE h

\* a handler that does not look at the role
onmessage_anyRole(h, data) ==
    CASE data.type = "requestSecret" ->
           IF h.stored # NoSecret
           THEN send(h, [type |-> "secret", secret |-> h.stored])
           ELSE h
      [] data.type = "secret" -> [h EXCEPT !.secret = onMessageSecret(@, data)]
      [] OTHER -> h

\* onmessage: the maker answers requestSecret with the secret of its
\* localStorage, the resolver keeps the secret of a secret message
onmessage(h, data) ==
    CASE data.type = "requestSecret" ->
           IF h.role = "maker" /\ h.stored # NoSecret
           THEN send(h, [type |-> "secret", secret |-> h.stored])
           ELSE h
      [] data.type = "secret" ->
           IF h.role = "resolver"
           THEN [h EXCEPT !.secret = onMessageSecret(@, data)]
           ELSE h
      [] OTHER -> h

\* a message arrives on one of the hook's open sockets
socketMessage ==
    /\ hook.current = "OPEN" \/ hook.strayOpen > 0
    /\ hook.received < MaxDeliveries
    /\ \E data \in SocketMessages :
         hook' = onmessage([hook EXCEPT !.received = @ + 1, !.lastIn = data], data)
    /\ UNCHANGED <<now, wallet, known, vault, cEscrow, cHist, eEscrow, eHist, log, relay, vLog, order, call, storage>>

\* storeSecret(newSecret): localStorage.setItem for the maker only
hookStoreSecret ==
    /\ hook.mounted
    /\ hook.stored = NoSecret
    /\ \E newSecret \in Secrets :
         hook' = IF hook.role = "maker" THEN [hook EXCEPT !.stored = newSecret] ELSE hook
    /\ hook' # hook
    /\ UNCHANGED <<now, wallet, known, vault, cEscrow, cHist, eEscrow, eHist, log, relay, vLog, order, call, storage>>

\* the effect's cleanup: ws.current.close() only when the reconnect attempts
\* are used up; the close event then finds nothing left to schedule
cleanup ==
    /\ hook.mounted
    /\ LET unmounted == [hook EXCEPT !.mounted = FALSE]
       IN hook' = IF hook.current \in {"CONNECTING", "OPEN"}
                     /\ hook.reconnectAttempts >= maxReconnectAttempts
                  THEN onclose([unmounted EXCEPT !.current = "CLOSED"], now)
                  ELSE unmounted
    /\ UNCHANGED <<now, wallet, known, vault, cEscrow, cHist, eEscrow, eHist, log, relay, vLog, order, call, storage>>

hookTick ==
    /\ hook # NoHook
    /\ now < StartTime + MaxHookTicks * reconnectDelay
    /\ now' = now + reconnectDelay
    /\ UNCHANGED <<wallet, known, vault, cEscrow, cHist, eEscrow, eHist, log, relay, vLog, order, call, hook, storage>>

UseWebSocket == \E role \in {"maker", "resolver"} : useWebSocket(role)

\* the connections of the hook
NextHook ==
    \/ UseWebSocket
    \/ callConnect
    \/ timerFires
    \/ socketOpens
    \/ socketCloses
    \/ cleanup
    \/ hookTick

SpecHook == Init /\ [][NextHook]_vars

\* the messages of the hook, on the connection it opens when mounted
NextHookMessages ==
    \/ UseWebSocket
    \/ socketOpens
    \/ socketCloses
    \/ socketMessage
    \/ hookStoreSecret

SpecHookMessages == Init /\ [][NextHookMessages]_vars

(********************** the backend's order service ************************)

VALID_ORDER_STATUSES ==
    {"pending", "depositing", "withdrawing", "completed", "failed", "expired", "cancelled"}

MaxUpdates == 2

\* Order.create({...orderData, status: ORDER_STATUSES.PENDING})
orderServiceCreateOrder ==
    /\ order.row = NoRow
    /\ order' = [order EXCEPT !.row = [status |-> "pending", resolverAddress |-> "none"]]
    /\ UNCHANGED <<now, wallet, known, vault, cEscrow, cHist, eEscrow, eHist, log, relay, vLog, call, hook, storage>>

\* validateOrderAcceptance: a resolver may accept a pending order
validateOrderAcceptance(o) == o.status = "pending"

validateOrderStatus(newStatus) == newStatus \in VALID_ORDER_STATUSES

\* acceptOrder up to its first await: const order = await Order.findByPk(orderId)
acceptOrder_findByPk(r) ==
    /\ order.row # NoRow
    /\ order.requests[r].pc = "idle"
    /\ order' = [order EXCEPT !.requests[r] = [pc |-> "read", read |-> order.row, result |-> "none"]]
    /\ UNCHANGED <<now, wallet, known, vault, cEscrow, cHist, eEscrow, eHist, log, relay, vLog, call, hook, storage>>

\* acceptOrder from the validation of the instance it read to order.save(),
\* which writes the two changed columns
acceptOrder_save(r) ==
    /\ order.requests[r].pc = "read"
    /\ IF validateOrderAcceptance(order.requests[r].read)
       THEN order' = [order EXCEPT !.row = [status |-> "depositing", resolverAddress |-> r],
                                   !.requests[r].pc = "done",
                                   !.requests[r].result = "success"]
       ELSE order' = [order EXCEPT !.requests[r].pc = "done",
                                   !.requests[r].result = "error"]
    /\ UNCHANGED <<now, wallet, known, vault, cEscrow, cHist, eEscrow, eHist, log, relay, vLog, call, hook, storage>>

\* updateOrderStatus: order.update({ status: newStatus }) for any valid status
updateOrderStatus(newStatus) ==
    /\ order.row # NoRow
    /\ order.updates < MaxUpdates
    /\ IF validateOrderStatus(newStatus)
       THEN order' = [order EXCEPT !.row.status = newStatus, !.updates = @ + 1]
       ELSE order' = [order EXCEPT !.updates = @ + 1]
    /\ UNCHANGED <<now, wallet, known, vault, cEscrow, cHist, eEscrow, eHist, log, relay, vLog, call, hook, storage>>

AcceptOrderFind == \E r \in DOMAIN order.requests : acceptOrder_findByPk(r)
AcceptOrderSave == \E r \in DOMAIN order.requests : acceptOrder_save(r)
UpdateOrderStatus == \E newStatus \in VALID_ORDER_STATUSES \cup {"bogus"} : updateOrderStatus(newStatus)

NextBackend ==
    \/ orderServiceCreateOrder
    \/ AcceptOrderFind
    \/ AcceptOrderSave
    \/ UpdateOrderStatus

SpecBackend == Init /\ [][NextBackend]_vars

(********************************* the claims ******************************)

verify(secret, hashlock) == psha2_256(secret) = hashlock \/ keccak256(secret) = hashlock

HoldsSrcAsset(p) == wallet[p].ada >= SrcAmount
HoldsDstAsset(p) == wallet[p].eth >= DstAmount

SecretTransmitted ==
    \/ relay.sent
    \/ "secret" \in relay.toServer \cup relay.toResolver
    \/ relay.resolverSecret # NoSecret

C2_NoPartyHoldsBoth ==
    SrcFunded => \A p \in Parties : ~(HoldsSrcAsset(p) /\ HoldsDstAsset(p))

CardanoAttempted == log.chain = "cardano"
EvmAttempted == log.chain = "evm"

\* C3 as stated: after any sequence of terminal-transition attempts on an
\* escrow, exactly one of them has succeeded.
C3_ExactlyOneSucceeded ==
    /\ CardanoAttempted => cHist.successes = 1
    /\ EvmAttempted => eHist.successes = 1

\* C3 amended: at most one terminal transition ever succeeds on an escrow;
\* every attempt after the first success is rejected.
C3_AtMostOneTerminal ==
    /\ cHist.successes <= 1
    /\ eHist.successes <= 1
    /\ cHist.successes = 1 <=> cEscrow.state \in {"withdrawn", "cancelled"}

C3_Witness ==
    /\ EvmAttempted /\ ~log.ok
    /\ eHist.successes = 1
    /\ cHist.successes = 1

cDeposited == vault.datum.maker_input_value + cEscrow.datum.safety_deposit
eDeposited == eEscrow.immutables.amount + eEscrow.immutables.safetyDeposit

\* C4: on every terminal path an escrow pays out exactly the amount +
\* safetyDeposit deposited at funding, in one transition that takes its
\* balance to zero; until then the whole deposit is held.
C4_Conservation ==
    /\ cEscrow.state = "funded" => cEscrow.value = cDeposited /\ cHist.paid = 0
    /\ cEscrow.state \in {"withdrawn", "cancelled"} => cEscrow.value = 0 /\ cHist.paid = cDeposited
    /\ eEscrow.deployed =>
          \/ eEscrow.balance = eDeposited /\ eHist.paid = 0
          \/ eEscrow.balance = 0 /\ eHist.paid = eDeposited

C4_Witness ==
    /\ cEscrow.state = "withdrawn" /\ cHist.paid = SrcAmount + SafetyDeposit
    /\ eEscrow.deployed /\ eEscrow.balance = 0 /\ log.op = "Cancel" /\ log.ok /\ EvmAttempted

\* C5: a Cancel succeeds only when the resolver calls it at a time >=
\* resolverCancelDeadline (time only moves forward, so a state in which the
\* last attempt is a successful Cancel lies at or after the deadline).
C5_CancelOnlyAfterDeadline ==
    /\ (CardanoAttempted /\ log.op = "Cancel" /\ log.ok) =>
          /\ log.actor = cEscrow.datum.resolver_pkh
          /\ now >= cEscrow.datum.resolver_cancel_deadline
    /\ (EvmAttempted /\ log.op = "Cancel" /\ log.ok) =>
          /\ log.actor = eEscrow.immutables.taker
          /\ blockTimestamp >= eEscrow.immutables.timelocks.DstCancellation

\* C6: once the source escrow has been cancelled the maker has regained the
\* source asset, and once it has been withdrawn and the destination escrow
\* is closed the maker holds the destination asset.
C6_MakerMadeWhole ==
    /\ cEscrow.state = "cancelled" => HoldsSrcAsset("maker")
    /\ (cEscrow.state = "withdrawn" /\ eEscrow.deployed /\ eEscrow.balance = 0) =>
          HoldsDstAsset("maker") \/ HoldsSrcAsset("maker")

\* C7: a Withdraw succeeds only if the presented secret satisfies
\* verify(secret, hashlock) for the escrow's hashlock.
C7_WithdrawNeedsSecret ==
    /\ (CardanoAttempted /\ log.op = "Withdraw" /\ log.ok) => verify(log.secret, cEscrow.datum.hashlock)
    /\ (EvmAttempted /\ log.op = "Withdraw" /\ log.ok) => verify(log.secret, eEscrow.immutables.hashlock)

\* C8: a private Withdraw succeeds only while the current time is <= the
\* side's cancellation deadline.
C8_PrivateWithdrawBeforeCancel ==
    [][ /\ (cHist'.successes = cHist.successes + 1 /\ log'.op = "Withdraw") =>
              now <= cEscrow.datum.resolver_cancel_deadline
        /\ (eHist'.successes = eHist.successes + 1 /\ log'.op = "Withdraw") =>
              blockTimestamp <= eEscrow.immutables.timelocks.DstCancellation ]_vars

\* the outputs of the last vault transaction that pay exactly
\* maker_input_value + safety_deposit_amount to the expected escrow script
ExactEscrowOutputs ==
    {i \in 1..Len(vLog.tx.outputs) :
        /\ vLog.tx.outputs[i].script
        /\ vLog.tx.outputs[i].cred = vault.datum.expected_escrow_script_hash
        /\ vLog.tx.outputs[i].lovelaces =
              vault.datum.maker_input_value + vLog.redeemer.safety_deposit_amount}

C10_ReleaseExactlyOneOutput ==
    vLog.ok => /\ Cardinality(ExactEscrowOutputs) = 1
               /\ vLog.redeemer.resolver_pkh \in vLog.tx.signatories

\* C10 amended: at least one such output, and the resolver's signature.
C10_ReleaseSomeOutputSigned ==
    vLog.ok => /\ Cardinality(ExactEscrowOutputs) >= 1
               /\ vLog.redeemer.resolver_pkh \in vLog.tx.signatories

C10_Witness == vLog.ok /\ Cardinality(ExactEscrowOutputs) = 2 /\ vault.state = "spent"

C12_PublicCancel ==
    [][ ( /\ log' # log
          /\ log'.chain = "cardano" /\ log'.op = "Cancel"
          /\ log'.actor # cEscrow.datum.resolver_pkh
          /\ cEscrow.state = "funded"
          /\ now >= cEscrow.datum.public_cancel_deadline )
        => /\ log'.ok
           /\ cEscrow'.state = "cancelled"
           /\ wallet'["maker"].ada = wallet["maker"].ada + vault.datum.maker_input_value
           /\ wallet'[log'.actor].ada >= wallet[log'.actor].ada + cEscrow.datum.safety_deposit ]_vars

\* C13: a public withdrawal succeeds only with a secret that matches the
\* hashlock and only inside [publicDeadlineStart, resolverCancelDeadline):
\* on Cardano (a Withdraw the resolver did not sign) the transaction's
\* validity interval lies at or after resolver_unlock_deadline and before
\* resolver_cancel_deadline; on the EVM the caller holds the access token
\* and block.timestamp lies in [DstPublicWithdrawal, DstCancellation).
C13_PublicWithdrawGuarded ==
    [][ /\ ( /\ cHist'.successes = cHist.successes + 1
             /\ log'.op = "Withdraw"
             /\ log'.actor # cEscrow.datum.resolver_pkh )
           => /\ verify(log'.secret, cEscrow.datum.hashlock)
              /\ log'.lower # NoBound /\ log'.lower >= cEscrow.datum.resolver_unlock_deadline
              /\ log'.upper # NoBound /\ log'.upper < cEscrow.datum.resolver_cancel_deadline
        /\ ( /\ eHist'.successes = eHist.successes + 1
             /\ log'.op = "PublicWithdraw" )
           => /\ log'.actor \in AccessTokenHolders
              /\ verify(log'.secret, eEscrow.immutables.hashlock)
              /\ blockTimestamp >= eEscrow.immutables.timelocks.DstPublicWithdrawal
              /\ blockTimestamp < eEscrow.immutables.timelocks.DstCancellation ]_vars

\* C14: when PublicWithdraw succeeds, the amount goes to the maker, as in a
\* private Withdraw, and the safety deposit goes to the caller.
C14_PublicWithdrawRouting ==
    [][ ( /\ eHist'.successes = eHist.successes + 1
          /\ log'.op = "PublicWithdraw" )
        => /\ wallet'[eEscrow.immutables.maker].eth =
                 wallet[eEscrow.immutables.maker].eth + eEscrow.immutables.amount
           /\ wallet'[log'.actor].eth =
                 wallet[log'.actor].eth + eEscrow.immutables.safetyDeposit ]_vars

\* C15: when Cancel succeeds, the locked amount returns to its depositor
\* (the maker on the Cardano source escrow, the resolver on EscrowDst) and
\* the safety deposit goes to the resolver.
C15_CancelRouting ==
    [][ /\ ( /\ cHist'.successes = cHist.successes + 1
             /\ log'.op = "Cancel" )
           => /\ wallet'[cEscrow.datum.maker_pkh].ada =
                    wallet[cEscrow.datum.maker_pkh].ada + (cEscrow.value - cEscrow.datum.safety_deposit)
              /\ wallet'[cEscrow.datum.resolver_pkh].ada <=
                    wallet[cEscrow.datum.resolver_pkh].ada + cEscrow.datum.safety_deposit
        /\ ( /\ eHist'.successes = eHist.successes + 1
             /\ log'.op = "Cancel" )
           => wallet'[eEscrow.immutables.taker].eth =
                 wallet[eEscrow.immutables.taker].eth
                 + eEscrow.immutables.amount + eEscrow.immutables.safetyDeposit ]_vars

\* C16: when a private Withdraw succeeds the locked amount goes to the
\* counterparty (the resolver on the Cardano source escrow, the maker on
\* EscrowDst) and the safety deposit to the other party; after both
\* withdrawals the resolver holds the source asset and the maker holds the
\* destination asset and no longer the source asset.
C16_WithdrawRouting ==
    [][ /\ ( /\ cHist'.successes = cHist.successes + 1
             /\ log'.op = "Withdraw" )
           => /\ wallet'[cEscrow.datum.resolver_pkh].ada >=
                    wallet[cEscrow.datum.resolver_pkh].ada
                    + (cEscrow.value - cEscrow.datum.safety_deposit) - MaxFee
              /\ wallet'[cEscrow.datum.maker_pkh].ada <=
                    wallet[cEscrow.datum.maker_pkh].ada + cEscrow.datum.safety_deposit
        /\ ( /\ eHist'.successes = eHist.successes + 1
             /\ log'.op = "Withdraw" )
           => /\ wallet'[eEscrow.immutables.maker].eth =
                    wallet[eEscrow.immutables.maker].eth + eEscrow.immutables.amount
              /\ wallet'[eEscrow.immutables.taker].eth =
                    wallet[eEscrow.immutables.taker].eth + eEscrow.immutables.safetyDeposit
              /\ cEscrow.state = "withdrawn" =>
                    /\ wallet'["maker"].eth >= DstAmount
                    /\ wallet'["maker"].ada < SrcAmount
                    /\ wallet'["resolver"].ada >= SrcAmount - MaxFee ]_vars

\* C17: every escrow that exists has resolver_unlock_deadline <
\* resolver_cancel_deadline < public_cancel_deadline; a creation whose
\* deadlines are not in this order is rejected.
C17_DeadlineCascade ==
    cEscrow.state # "none" =>
        /\ cEscrow.datum.resolver_unlock_deadline < cEscrow.datum.resolver_cancel_deadline
        /\ cEscrow.datum.resolver_cancel_deadline < cEscrow.datum.public_cancel_deadline

\* C18: while resolver_unlock_deadline has not passed, a Withdraw of the
\* Cardano escrow succeeds only if the designated resolver signed it (time
\* only moves forward, so a state at or before the deadline whose last
\* attempt is a successful Withdraw saw it succeed before the deadline).
C18_ResolverExclusiveWindow ==
    ( /\ CardanoAttempted /\ log.op = "Withdraw" /\ log.ok
      /\ now <= cEscrow.datum.resolver_unlock_deadline )
    => log.actor = cEscrow.datum.resolver_pkh

\* a transaction whose validity interval is the single instant t
InstantTx(t) == [signatories |-> {}, lower |-> t, upper |-> t]

\* C19: the exclusive-window guard and the next-window guard are never both
\* satisfied at one instant, and at a clock value equal to
\* resolver_unlock_deadline the exclusive-window guard holds and the
\* next-window guard does not: a Withdraw submitted for exactly that instant
\* succeeds if and only if the resolver signed it.
C19_BoundaryInExclusiveWindow ==
    cEscrow.state # "none" =>
        LET datum == cEscrow.datum
            deadline == datum.resolver_unlock_deadline
        IN /\ ~(beforeResolverDeadline(datum, InstantTx(now)) /\ afterResolverDeadline(datum, InstantTx(now)))
           /\ ~(SwapValidation_validateTimelock(now, deadline, TRUE)
                  /\ SwapValidation_validateTimelock(now, deadline, FALSE))
           /\ now = deadline =>
                 /\ SwapValidation_validateTimelock(now, deadline, TRUE)
                 /\ ~SwapValidation_validateTimelock(now, deadline, FALSE)
                 /\ beforeResolverDeadline(datum, InstantTx(now))
                 /\ ~afterResolverDeadline(datum, InstantTx(now))
                 /\ ( /\ CardanoAttempted /\ log.op = "Withdraw"
                      /\ log.lower = deadline /\ log.upper = deadline
                      /\ verify(log.secret, datum.hashlock) )
                    => (log.ok <=> log.actor = datum.resolver_pkh)

EscrowOutputsOf(tx) ==
    {i \in 1..Len(tx.outputs) :
        tx.outputs[i].script /\ tx.outputs[i].cred = vault.datum.expected_escrow_script_hash}

\* C22: an escrow is created only with exactly amount + safetyDeposit, the
\* safety deposit being the one the escrow record declares; a creation with
\* any other value is rejected.
C22_ExactFunding ==
    (vLog # NoVLog /\ vLog.ok) =>
        \A i \in EscrowOutputsOf(vLog.tx) :
            vLog.tx.outputs[i].lovelaces =
                vault.datum.maker_input_value + vLog.tx.outputs[i].datum.safety_deposit

\* C23: instantiating a pre-funded escrow fails whenever the balance already
\* held at its deterministic address is less than the declared safetyDeposit:
\* every escrow that exists found at least its declared deposit at its address.
C23_PrefundRequired ==
    \A e \in order.srcEscrows : e.prefunded >= e.immutables.safetyDeposit

\* an instantiation attempted with the maker's ETH locked and nothing at the
\* address was turned away
C23_Witness ==
    /\ order.last.error = "InsufficientEscrowBalance"
    /\ order.lop = DstAmount
    /\ order.srcEscrows = {}

\* C24: verify(s, commit(s)) is true for every secret s, and
\* verify(s1, commit(s2)) is false whenever s1 and s2 differ.
C24_VerifyIffSameSecret ==
    call.fn \in {"validateSecretAgainstHashlock", "validateSecret"} =>
        (call.result <=> call.secret = call.committed)

C27_RedeliveryIdempotent ==
    [][/\ (call' # call /\ call'.fn = "onmessage" /\ call'.repeated) => relay'.resolverSecret = relay.resolverSecret
       /\ (call' = call /\ order.page.secret = relay.resolverSecret) => order'.page = order.page]_vars

\* the secret message was delivered a second time after the page had taken
\* the secret over
C27_Witness ==
    /\ call.fn = "onmessage" /\ call.repeated
    /\ call.data = [type |-> "secret", secret |-> Secret]
    /\ relay.resolverSecret = Secret
    /\ order.page.secret = Secret /\ order.page.shareSecret = "completed"

\* C28: the order hash separates orders: two orders that differ in a field
\* of the order (maker, assets and amounts, receiver on the destination
\* chain, hashlock, salt, deadline), or that are made for different
\* protocol instances, have different hashes.
C28_HashSeparatesOrders ==
    call.fn = "createOrderHash" =>
        ((call.a.order # call.b.order \/ call.a.metadata # call.b.metadata
            \/ call.a.domain # call.b.domain)
         => call.a.orderHash # call.b.orderHash)

\* C29: an escrow funded by releasing a vault names the maker of the spent
\* vault record as its maker.
C29_EscrowNamesVaultMaker ==
    (vLog # NoVLog /\ vLog.ok) =>
        \A i \in EscrowOutputsOf(vLog.tx) :
            vLog.tx.outputs[i].datum.maker_pkh = vault.datum.maker_pkh

\* output i of the transaction is an escrow output of the value that the
\* vault record with this datum and redeemer requires
RequiredOutput(datum, redeemer, tx, i) ==
    /\ tx.outputs[i].script
    /\ tx.outputs[i].cred = datum.expected_escrow_script_hash
    /\ tx.outputs[i].lovelaces = datum.maker_input_value + redeemer.safety_deposit_amount

\* C30: when two vault records are spent in the same transaction, each is
\* matched by an escrow output of its own: there are two different outputs,
\* one of the value required by the first record and one of the value
\* required by the second.
C30_DistinctEscrowOutputs ==
    (call.fn = "secondVault" /\ vLog.ok) =>
        \E i \in 1..Len(vLog.tx.outputs), j \in 1..Len(vLog.tx.outputs) :
            /\ i # j
            /\ RequiredOutput(vault.datum, vLog.redeemer, vLog.tx, i)
            /\ RequiredOutput(call.vault.datum, call.redeemer, vLog.tx, j)

\* C31: the escrow validator compares resolver_unlock_deadline and the
\* bounds of the validity interval in one time unit: for a transaction valid
\* at the single instant now, the exclusive-window guard holds exactly up to
\* the deadline written into the datum and the next-window guard exactly
\* after it.
C31_SameTimeUnit ==
    cEscrow.state # "none" =>
        LET datum == cEscrow.datum
        IN /\ beforeResolverDeadline(datum, InstantTx(now)) <=> now <= datum.resolver_unlock_deadline
           /\ afterResolverDeadline(datum, InstantTx(now)) <=> datum.resolver_unlock_deadline < now

\* C32: the hashlock of every Cardano escrow is the commitment of its
\* creation secret under the hash the validator and the withdrawal tool
\* apply, so the creation secret unlocks the escrow.
C32_CreationSecretUnlocks ==
    cEscrow.state # "none" =>
        /\ psha2_256(Secret) = cEscrow.datum.hashlock
        /\ SwapValidation_validateSecret(Secret, cEscrow.datum.hashlock)

\* the destination escrow is funded and block.timestamp lies in the private
\* period [DstWithdrawal, DstPublicWithdrawal)
DstPrivatePeriod ==
    /\ eEscrow.deployed
    /\ eHist.successes = 0
    /\ blockTimestamp >= eEscrow.immutables.timelocks.DstWithdrawal
    /\ blockTimestamp < eEscrow.immutables.timelocks.DstPublicWithdrawal

\* C33: during the private period a call of withdraw on the EVM destination
\* escrow succeeds when the maker makes it and when the taker makes it.
C33_MakerAndTakerWithdraw ==
    [][ ( /\ DstPrivatePeriod
          /\ log' # log
          /\ log'.chain = "evm" /\ log'.op = "Withdraw"
          /\ log'.actor \in {eEscrow.immutables.maker, eEscrow.immutables.taker} )
        => log'.ok ]_vars

\* the resolvers whose acceptOrder request returned success
Accepted == {r \in DOMAIN order.requests : order.requests[r].result = "success"}

\* C34: of the resolvers that try to accept one order at most one succeeds,
\* and the resolver recorded on the order is the one that succeeded.
C34_OneAcceptance ==
    /\ Cardinality(Accepted) <= 1
    /\ \A r \in Accepted : order.row.resolverAddress = r

TerminalStatuses == {"completed", "failed", "expired", "cancelled"}

\* C39: once the status of an order is completed, failed, expired or
\* cancelled, no operation changes it to another status.
C39_TerminalStatusFinal ==
    [][order.row.status \in TerminalStatuses => order'.row.status = order.row.status]_vars

\* C35: a secret message is sent only by a hook with the role maker and only
\* while it handles a requestSecret, and it carries the secret of the maker's
\* localStorage; the secret a hook holds changes only in a hook with the role
\* resolver and only while it handles a secret message.
C35_RoleGatedSecret ==
    [][ /\ hook'.sent # hook.sent =>
              /\ hook.role = "maker"
              /\ hook'.received = hook.received + 1
              /\ hook'.lastIn.type = "requestSecret"
              /\ hook'.sent = Append(hook.sent, [type |-> "secret", secret |-> hook.stored])
        /\ hook'.secret # hook.secret =>
              /\ hook.role = "resolver"
              /\ hook'.received = hook.received + 1
              /\ hook'.lastIn.type = "secret" ]_vars

\* the maker's hook has answered a requestSecret with its stored secret
C35_Witness ==
    /\ hook.role = "maker"
    /\ hook.stored = Secret
    /\ hook.lastIn.type = "requestSecret"
    /\ hook.sent = <<[type |-> "secret", secret |-> Secret]>>
    /\ hook.secret = NoSecret

\* the open sockets of the hook
LiveConnections == (IF hook.current = "OPEN" THEN 1 ELSE 0) + hook.strayOpen

\* C36: a hook never has more than one open connection.
C36_OneLiveConnection == LiveConnections <= 1

\* a socket of the hook opens in this step
SocketOpened ==
    \/ hook.current = "CONNECTING" /\ hook'.current = "OPEN"
    \/ hook'.strayOpen = hook.strayOpen + 1

\* C37: at most maxReconnectAttempts reconnections are scheduled without an
\* open in between, each reconnectDelay after the close; an open sets the
\* count to 0; when the attempts are used up nothing more is scheduled.
C37_BoundedReconnect ==
    /\ [](hook.sinceOpen <= maxReconnectAttempts)
    /\ [][ /\ SocketOpened => hook'.reconnectAttempts = 0
           /\ Len(hook'.timers) > Len(hook.timers) =>
                 /\ hook'.timers = Append(hook.timers, now + reconnectDelay)
                 /\ hook.reconnectAttempts < maxReconnectAttempts
                 /\ hook'.reconnectAttempts = hook.reconnectAttempts + 1 ]_vars

\* six sockets closed without an open in between: five reconnections are
\* scheduled, the sixth close scheduled none
C37_Witness ==
    /\ hook.created > maxReconnectAttempts
    /\ hook.current = "CLOSED" /\ hook.strayConnecting = 0 /\ hook.strayOpen = 0
    /\ hook.reconnectAttempts = maxReconnectAttempts
    /\ hook.sinceOpen = maxReconnectAttempts
    /\ Len(hook.timers) = maxReconnectAttempts

KeysWithSecret == {k \in StoreKeys : storage.items[k].kind = "secret"}

\* C40: the secret index holds every key at most once and holds exactly the
\* keys that have a stored secret.
C40_IndexMatchesSecrets ==
    LET index == parsedIndex(storage.items)
    IN /\ \A i \in 1..Len(index) : \A j \in 1..Len(index) : index[i] = index[j] => i = j
       /\ {index[i] : i \in 1..Len(index)} = KeysWithSecret

====
